---- MODULE Spec2Model ----
(***************************************************************************)
(* Manazra: the round-robin multi-model conversation orchestrator.         *)
(*                                                                         *)
(* The model follows the conversation routes (POST /start-stream and       *)
(* POST /start) and OpenRouterService.generateMultipleResponses.  One      *)
(* behaviour is the handling of one HTTP request: Init draws the request   *)
(* body, the actions are the stretches of handler code between two         *)
(* suspension points, and the upstream provider (the resolution or         *)
(* rejection of a call, the data / end / error events of a stream) is the  *)
(* environment.                                                            *)
(*                                                                         *)
(* Text is a sequence of string tokens, so that the template literals of   *)
(* the code are concatenations (\o) and a prefix can be inspected.         *)
(***************************************************************************)
EXTENDS Integers, Sequences, FiniteSets, TLC

\* ------------------------------------------------------------------ bounds

\* A conversation of the full-nondeterminism request set issues at most
\* MaxSteps model calls (models x rounds <= MaxSteps).
MaxSteps == 4
\* At most MaxFrames 'data' events are delivered on one provider stream.
MaxFrames == 1
\* Upstream deviations allowed while serving a request of the wide
\* (validation) request set.
WideFaults == 1

\* The resource-protection limit of the start routes.
MaxModelsAllowed == 10

\* ------------------------------------------------------------------- text

Last(s) == s[Len(s)]

IsPrefix(p, s) == Len(p) <= Len(s) /\ SubSeq(s, 1, Len(p)) = p

ModelIds ==
  <<"v/m1", "v/m2", "v/m3", "v/m4", "v/m5", "v/m6",
    "v/m7", "v/m8", "v/m9", "v/m10", "v/m11">>

ModelNames ==
  <<"M1", "M2", "M3", "M4", "M5", "M6", "M7", "M8", "M9", "M10", "M11">>

\* The i-th selectable model: uniqueness is by identifier.
Model(i) == [id |-> ModelIds[i], name |-> ModelNames[i]]

ModelList(n) == [i \in 1..n |-> Model(i)]

\* models.map(m => m.name).join(', ')
RECURSIVE JoinNames(_)
JoinNames(ms) ==
  IF Len(ms) = 0 THEN <<>>
  ELSE IF Len(ms) = 1 THEN <<ms[1].name>>
  ELSE <<ms[1].name, ", ">> \o JoinNames(Tail(ms))

InitialMessages(topic, ms) ==
  << [role |-> "user",
      content |-> <<"Let's discuss the following topic: ", topic,
                    ". You are participating in a group discussion with the following AI models: ">>
                  \o JoinNames(ms)
                  \o <<". Please provide your perspective and insights, and feel free to respond to and build upon what others say.">>] >>

\* "Here's what ${model.name} said: ${text}"
Relabeled(model, text) ==
  [role |-> "user", content |-> <<"Here's what ", model.name, " said: ">> \o text]

\* "Here's what ${model.name} said: [Error: Unable to generate response]"
ErrorPlaceholder(model) ==
  [role |-> "user",
   content |-> <<"Here's what ", model.name, " said: ", "[Error: Unable to generate response]">>]

ErrorPrefix == <<"Error: ">>

SuccessResponse(model, text) == [model |-> model, response |-> text, error |-> FALSE]

\* Mutant: the error entry built without its flag and its indicator.
ErrorResponseUnflagged(model, message) ==
  [model |-> model, response |-> message, error |-> FALSE]

\* { model, response: "Error: ${error.message}", timestamp, error: true }
ErrorResponse(model, message) ==
  [model |-> model, response |-> ErrorPrefix \o message, error |-> TRUE]

\* error.message of the Error thrown by generateStreamingResponse's catch
StreamingCallError(modelId, cause) ==
  <<"Failed to generate streaming response from ", modelId, ": ", cause>>

\* error.message of the Error thrown by generateResponse's catch
CallError(modelId, cause) ==
  <<"Failed to generate response from ", modelId, ": ", cause>>

\* error.message of the TypeError of systemPrompts[model.id] / tones[model.id]
\* when the map is undefined
UndefinedMapError == <<"Cannot read properties of undefined">>

\* What the upstream provider may answer a failed call with, and the
\* message of a stream's 'error' event.
Causes == {"Unauthorized"}
StreamErrors == {<<"aborted">>}

\* ---------------------------------------------------------- voice cleaning

\* The fence marker (three backquotes) is one token.
Fence == "<fence>"
JsonTag == "json"
Blank == " "

IsBlank(t) == t = Blank

RECURSIVE TrimLeft(_)
TrimLeft(s) ==
  IF Len(s) > 0 /\ IsBlank(s[1]) THEN TrimLeft(Tail(s)) ELSE s

RECURSIVE TrimRight(_)
TrimRight(s) ==
  IF Len(s) > 0 /\ IsBlank(s[Len(s)]) THEN TrimRight(SubSeq(s, 1, Len(s) - 1)) ELSE s

Trim(s) == TrimLeft(TrimRight(s))

\* response.replace(/<fence>json\s*/g, ''): every fence directly followed by the
\* json tag is removed together with the blanks after it.
RECURSIVE StripJsonFences(_)
StripJsonFences(s) ==
  IF Len(s) = 0 THEN <<>>
  ELSE IF Len(s) >= 2 /\ s[1] = Fence /\ s[2] = JsonTag
       THEN StripJsonFences(TrimLeft(SubSeq(s, 3, Len(s))))
       ELSE <<s[1]>> \o StripJsonFences(Tail(s))

\* .replace(/<fence>\s*$/g, ''): the leftmost fence that is followed by blanks
\* only, up to the end of the text, is removed with those blanks.
RECURSIVE StripTrailingFence(_)
StripTrailingFence(s) ==
  IF Len(s) = 0 THEN <<>>
  ELSE IF s[1] = Fence /\ TrimLeft(Tail(s)) = <<>>
       THEN <<>>
       ELSE <<s[1]>> \o StripTrailingFence(Tail(s))

\* cleanedResponse = response.replace(...).replace(...).trim()
CleanVoiceResponse(s) == Trim(StripTrailingFence(StripJsonFences(s)))

\* ---------------------------------------------------------------- request

Modes == {"stream", "batch"}
ResponseTypes == {"normal", "voice"}

\* req.body of a start request.  topic and models may be missing; models may
\* be something that is not an array; responseCount 0 stands for a missing
\* (or zero) count; systemPrompts / tones say whether the map was supplied;
\* apiKey says whether the frontend passed a key.
Request(mode, topic, kind, n, count, type, prompts, tones) ==
  [mode |-> mode,
   topic |-> topic,
   models |-> [kind |-> kind, list |-> ModelList(n)],
   responseCount |-> count,
   responseType |-> type,
   systemPrompts |-> prompts,
   tones |-> tones,
   apiKey |-> TRUE]

WithoutKey(r) == [r EXCEPT !.apiKey = FALSE]

\* process.env: whether OPENROUTER_API_KEY is set.
ProcessEnv(key) == [OPENROUTER_API_KEY |-> key]
NoProcessKey == ProcessEnv(FALSE)

GivenTopic == [given |-> TRUE, text |-> "AI"]
Topics == {[given |-> FALSE, text |-> ""], [given |-> TRUE, text |-> ""], GivenTopic}

\* responseCount || 1
TotalRounds(r) == IF r.responseCount = 0 THEN 1 ELSE r.responseCount

\* Well-formed requests issuing at most MaxSteps model calls.
SmallRequests ==
  { Request(mode, GivenTopic, "array", n, count, type, p, t) :
      mode \in Modes, n \in 1..MaxSteps, count \in 0..MaxSteps,
      type \in ResponseTypes, p \in BOOLEAN, t \in BOOLEAN }

FitsSmall(r) == Len(r.models.list) * TotalRounds(r) <= MaxSteps

\* Requests around the validation rules: every shape of topic and models,
\* model lists from empty to one past the limit.
WideRequests ==
  { Request(mode, topic, "array", n, 0, "normal", TRUE, TRUE) :
      mode \in Modes, topic \in Topics, n \in 0..(MaxModelsAllowed + 1) }
  \cup
  { Request(mode, topic, kind, 0, 0, "normal", TRUE, TRUE) :
      mode \in Modes, topic \in Topics, kind \in {"undefined", "object"} }

\* !topic
TopicFalsy(r) == ~r.topic.given \/ r.topic.text = ""

\* !topic || !models || !Array.isArray(models) || models.length === 0
MissingFields(r) ==
  \/ TopicFalsy(r)
  \/ r.models.kind = "undefined"
  \/ r.models.kind # "array"
  \/ Len(r.models.list) = 0

\* Mutant: the limit compared with >= instead of >.
TooManyModelsOffByOne(r) == Len(r.models.list) >= MaxModelsAllowed

\* models.length > 10
TooManyModels(r) == Len(r.models.list) > MaxModelsAllowed

Invalid(r) == MissingFields(r) \/ TooManyModels(r)

\* ----------------------------------------------------------- provider frames

\* One line of a provider chunk, after chunk.toString().split('\n').
DeltaLine(text) == [kind |-> "delta", content |-> text]
DoneLine == [kind |-> "done"]
MalformedLine == [kind |-> "malformed"]
OtherLine == [kind |-> "other"]

\* A whole short answer in one chunk: a content delta, the blank line
\* between two frames, the sentinel.
WholeAnswer == <<DeltaLine(<<"a">>), OtherLine, DoneLine>>

\* The chunks a 'data' event may carry.
Chunks ==
  { <<DeltaLine(<<"a">>)>>, <<DoneLine>>, WholeAnswer,
    <<MalformedLine, OtherLine, DeltaLine(<<>>)>> }

HasDone(chunk) == \E i \in 1..Len(chunk) : chunk[i].kind = "done"

\* ------------------------------------------------------- the browser page

\* The page as it is loaded: new TTSService() with its field initialisers,
\* no audio element yet, no callback invoked.  key: localStorage holds the
\* speech key.  The fields after idCounter are the page around the service:
\* synthesizing (the items whose convertTextToAudio is suspended), unpaused
\* (the audio elements whose paused attribute is false), playPromises (the
\* pending promises of play()), mediaTasks (the tasks the audio elements
\* have queued and the page has not run yet, run in the order queued:
\* "play" and "playing" after play(), "abort" after pause() with a promise
\* pending), callbacks (in order: the onStart / onEnd invocations "start" /
\* "end", the stop / skip calls, the conversions reported failed "fail", the
\* autoplay notices "blocked").  currentAudio holds the item id of the
\* element, 0 for null.
NewPage(key) ==
  [textQueue |-> <<>>,
   audioQueue |-> <<>>,
   isProcessingText |-> FALSE,
   isProcessingPlayback |-> FALSE,
   currentAudio |-> 0,
   idCounter |-> 0,
   key |-> key,
   synthesizing |-> {},
   unpaused |-> {},
   playPromises |-> {},
   mediaTasks |-> <<>>,
   callbacks |-> <<>>,
   urls |-> <<>>]

\* ------------------------------------------------- provider byte stream

\* The body of a streaming completion as the provider writes it: frames
\* "data: <payload>" each closed by a blank line, the last one carrying the
\* sentinel.  A byte stream is a sequence of tokens; the network cuts it
\* into read chunks between any two tokens.
DataPrefix == "data: "
Newline == "<lf>"
Sentinel == "[DONE]"
Garbage == "{oops"

\* {"choices":[{"delta":{"content": c}}]}
DeltaPayload(c) == <<"{choices:[{delta:{content:", c, "}}]}">>

DeltaFrame(c) == <<DataPrefix>> \o DeltaPayload(c) \o <<Newline, Newline>>
MalformedFrame == <<DataPrefix, Garbage, Newline, Newline>>
SentinelFrame == <<DataPrefix, Sentinel, Newline, Newline>>

\* chunk.toString().split('\n')
RECURSIVE SplitLines(_)
SplitLines(chunk) ==
  IF \A i \in 1..Len(chunk) : chunk[i] # Newline THEN <<chunk>>
  ELSE LET i == CHOOSE j \in 1..Len(chunk) :
                  chunk[j] = Newline /\ \A h \in 1..(j - 1) : chunk[h] # Newline
       IN <<SubSeq(chunk, 1, i - 1)>> \o SplitLines(SubSeq(chunk, i + 1, Len(chunk)))

\* What the 'data' callback makes of one line: line.startsWith('data: '),
\* data = line.slice(6), data === '[DONE]', JSON.parse(data) and the test
\* of parsed.choices[0].delta.
ParseLine(line) ==
  IF Len(line) = 0 \/ line[1] # DataPrefix THEN OtherLine
  ELSE LET data == Tail(line)
       IN IF data = <<Sentinel>> THEN DoneLine
          ELSE IF Len(data) = 3 /\ data = DeltaPayload(data[2])
          THEN DeltaLine(<<data[2]>>)
          ELSE MalformedLine

ParseLines(chunk) ==
  LET lines == SplitLines(chunk)
  IN [i \in 1..Len(lines) |-> ParseLine(lines[i])]

NoWire == [frames |-> <<>>, rest |-> <<>>]

\* ------------------------------------------------------------------ state

VARIABLES
  req,            \* the request body
  faults,         \* upstream deviations still allowed (-1: no limit)
  pc,             \* where the handler is
  round,          \* the round loop's variable
  k,              \* the position of the model loop in models
  status,         \* the HTTP status sent (0: none yet)
  body,           \* the JSON body sent by res.json
  initialMessages, \* the route's initialMessages array
  conversation,   \* the conversation object of the route
  events,         \* the events written on the channel, in order
  ended,          \* how many times res.end() was called
  responseText,   \* streaming branch: the text accumulated for this model
  responseCompleted, \* streaming branch: completeResponse has recorded
  sentinel,       \* provider: the [DONE] frame of the open stream was sent
  nframes,        \* provider: 'data' events delivered on the open stream
  inflight,       \* the upstream calls issued and not yet finished
  calls,          \* every upstream call issued: its model, round and messages
  outcomes,       \* how each issued call finished
  origin,         \* for each response appended, the <<round, k>> it was appended in
  oracle,         \* pair: the outcomes the replayed batch run follows
  harness,        \* "single": one request; "pair": stream, then batch replayed
  streamed,       \* pair: the events of the finished streaming run
  responses,      \* generateMultipleResponses: responses
  conversationMessages, \* generateMultipleResponses: conversationMessages
  tts,            \* the browser page: the TTSService object and its audio
  wire,           \* provider: the bytes of the open stream, sent and to send
  env,            \* process.env of the server
  unit,           \* one call of a helper function: its arguments and result
  client          \* the React context of the page: its state and the body it reads

vars ==
  <<req, faults, pc, round, k, status, body, initialMessages, conversation, events, ended,
    responseText, responseCompleted, sentinel, nframes, inflight, calls,
    outcomes, origin, oracle, harness, streamed, responses, conversationMessages,
    tts, wire, env, unit, client>>

\* Everything but the page's context.
serverState ==
  <<req, faults, pc, round, k, status, body, initialMessages, conversation, events, ended,
    responseText, responseCompleted, sentinel, nframes, inflight, calls,
    outcomes, origin, oracle, harness, streamed, responses, conversationMessages,
    tts, wire, env, unit>>

\* No helper function is followed on its own.
NoUnit == [fn |-> "none"]

\* The page is not followed.
NoClient == [followed |-> FALSE]

NoConversation == [created |-> FALSE, messages |-> <<>>, responses |-> <<>>]
NoBody == [sent |-> FALSE]

models == req.models.list
NumModels == Len(models)
\* Mutant: the continue and follow-up routes pass the count of the body on.
roundsOfBody == TotalRounds(req)

\* The round count the loops run to: responseCount || 1 on the start routes,
\* the literal 1 on the continue and follow-up routes.
totalRounds == IF req.mode \in {"continue", "followup"} THEN 1 ELSE TotalRounds(req)
model == models[k]

\* The state before the handler runs, for request r.
Fresh(r, f, h) ==
  /\ req = r
  /\ faults = f
  /\ harness = h
  /\ pc = "idle"
  /\ round = 0
  /\ k = 0
  /\ status = 0
  /\ body = NoBody
  /\ initialMessages = <<>>
  /\ conversation = NoConversation
  /\ events = <<>>
  /\ ended = 0
  /\ responseText = <<>>
  /\ responseCompleted = FALSE
  /\ sentinel = FALSE
  /\ nframes = 0
  /\ inflight = {}
  /\ calls = <<>>
  /\ outcomes = <<>>
  /\ origin = <<>>
  /\ oracle = <<>>
  /\ streamed = <<>>
  /\ responses = <<>>
  /\ conversationMessages = <<>>

\* The server is followed with the page left as loaded.  A request comes
\* with the key of the frontend and meets any upstream behaviour; or it
\* comes without one, to a server with or without a key of its own, and
\* meets a provider that answers nominally.
Init ==
  /\ \/ \E r \in SmallRequests :
          FitsSmall(r) /\ Fresh(r, -1, "single") /\ env = NoProcessKey
     \/ \E r \in WideRequests : Fresh(r, WideFaults, "single") /\ env = NoProcessKey
     \/ \E r \in SmallRequests, key \in BOOLEAN :
          FitsSmall(r) /\ Fresh(WithoutKey(r), 0, "single") /\ env = ProcessEnv(key)
  /\ tts = NewPage(TRUE)
  /\ wire = NoWire
  /\ unit = NoUnit
  /\ client = NoClient

\* An upstream step that deviates from the nominal run (one content delta,
\* the sentinel, a clean end) spends one unit of the fault budget.
Spend(nominal) ==
  IF nominal THEN faults' = faults
  ELSE /\ faults # 0
       /\ faults' = IF faults > 0 THEN faults - 1 ELSE faults

\* The batch run of a pair replays the outcomes of the streaming run.
Replaying == harness = "pair" /\ req.mode = "batch"

\* res.write("data: " + JSON.stringify(e) + "\n\n")
Written(e) == events' = Append(events, e)

\* What the models may answer a single-shot call with.
NominalReply == <<"x">>
ReplyTexts == {NominalReply, <<Fence, JsonTag, Blank, "x", Blank, Fence>>, <<>>}

Ok(text) == [ok |-> TRUE, text |-> text]
Failed == [ok |-> FALSE, text |-> <<>>]

\* createClient: key = apiKey || process.env.OPENROUTER_API_KEY
HasKey == req.apiKey \/ env.OPENROUTER_API_KEY

\* createClient without a key: throw new Error('No API key provided')
MissingKey == "No API key provided"

\* A call of generateResponse / generateStreamingResponse with the loop
\* position it was made at; sent: the request was posted to the provider.
Call(streaming, messages) ==
  [model |-> model.id, round |-> round, position |-> k, messages |-> messages,
   streaming |-> streaming, sent |-> HasKey]

\* Why a call is rejected: without a key createClient throws before any
\* request; with one, the provider or the network failed.
RejectedFor(cause) ==
  IF HasKey THEN cause \in Causes /\ Spend(FALSE)
  ELSE cause = MissingKey /\ faults' = faults


\* ------------------------------------------------ the helper functions alone

\* The longest text put inside a code fence, in tokens.
MaxTextLen == 2
\* The most members of a JSON object payload.
MaxMembers == 2
\* The follow-ups a page posts in a row, and the models it talks to.
MaxFollowups == 2
MaxFollowModels == 2
\* The model calls of a conversation whose body the page reads, and the
\* deviations of the provider during it.
MaxReadSteps == 2
MaxReadFaults == 1

\* JavaScript values: strings, numbers, null, undefined, plain objects whose
\* members are scalars, and functions (known by their source text).
Str(text) == [kind |-> "string", text |-> text, members |-> <<>>]
Num(digits) == [kind |-> "number", text |-> <<digits>>, members |-> <<>>]
Null == [kind |-> "null", text |-> <<>>, members |-> <<>>]
Undefined == [kind |-> "undefined", text |-> <<>>, members |-> <<>>]
Obj(members) == [kind |-> "object", text |-> <<>>, members |-> members]
Fn(source) == [kind |-> "function", text |-> <<source>>, members |-> <<>>]

\* ToBoolean
Truthy(v) ==
  /\ v.kind \notin {"null", "undefined"}
  /\ v.kind = "string" => v.text # <<>>
  /\ v.kind = "number" => v.text # <<"0">>

\* The tokens of a JSON text: punctuation, quoted strings, literals.
KeyTokens == {"'input'", "'instructions'", "'other'"}
ScalarTokens == {"'hi'", "'calm'", "''", "5", "null"}

KeyName(token) ==
  CASE token = "'input'" -> "input"
    [] token = "'instructions'" -> "instructions"
    [] OTHER -> "other"

ScalarValue(token) ==
  CASE token = "'hi'" -> Str(<<"hi">>)
    [] token = "'calm'" -> Str(<<"calm">>)
    [] token = "''" -> Str(<<>>)
    [] token = "5" -> Num("5")
    [] OTHER -> Null

NotBlank(t) == ~IsBlank(t)

\* The members of an object literal: key : value, separated by commas.
RECURSIVE ParseMembers(_)
ParseMembers(s) ==
  IF Len(s) >= 3 /\ s[1] \in KeyTokens /\ s[2] = ":" /\ s[3] \in ScalarTokens
  THEN LET member == <<KeyName(s[1]), ScalarValue(s[3])>>
       IN IF Len(s) = 3 THEN [ok |-> TRUE, members |-> <<member>>]
          ELSE IF s[4] = ","
               THEN LET rest == ParseMembers(SubSeq(s, 5, Len(s)))
                    IN [ok |-> rest.ok, members |-> <<member>> \o rest.members]
               ELSE [ok |-> FALSE, members |-> <<>>]
  ELSE [ok |-> FALSE, members |-> <<>>]

\* JSON.parse: the value, or ok FALSE for a SyntaxError.  White space between
\* tokens is skipped.
JSONParse(text) ==
  LET s == SelectSeq(text, NotBlank)
  IN IF Len(s) = 1 /\ s[1] \in ScalarTokens THEN [ok |-> TRUE, value |-> ScalarValue(s[1])]
     ELSE IF Len(s) = 2 /\ s = <<"{", "}">> THEN [ok |-> TRUE, value |-> Obj(<<>>)]
     ELSE IF Len(s) > 2 /\ s[1] = "{" /\ s[Len(s)] = "}"
          THEN LET inner == ParseMembers(SubSeq(s, 2, Len(s) - 1))
               IN [ok |-> inner.ok, value |-> Obj(inner.members)]
          ELSE [ok |-> FALSE, value |-> Undefined]

\* v[key]: the last member of that name; undefined when there is none or v
\* is a scalar.  Reading a property of null throws a TypeError.
Has(v, key) == \E i \in 1..Len(v.members) : v.members[i][1] = key

Get(v, key) ==
  IF Has(v, key)
  THEN LET i == CHOOSE n \in 1..Len(v.members) :
                  /\ v.members[n][1] = key
                  /\ \A m \in (n + 1)..Len(v.members) : v.members[m][1] # key
       IN v.members[i][2]
  ELSE Undefined

DefaultInstructions == "Deliver in a natural, conversational tone with clear pronunciation"

\* The try block of parseVoiceResponse: it returns, falls through or throws.
TryParse(payload) ==
  LET parsed == JSONParse(payload)
  IN IF ~parsed.ok \/ parsed.value.kind = "null"
     THEN [threw |-> TRUE, returned |-> FALSE, input |-> Undefined, instructions |-> Undefined]
     ELSE [threw |-> FALSE,
           returned |-> Truthy(Get(parsed.value, "input")) /\ Truthy(Get(parsed.value, "instructions")),
           input |-> Get(parsed.value, "input"),
           instructions |-> Get(parsed.value, "instructions")]

\* parseVoiceResponse: the catch logs and the fallback follows.
parseVoiceResponse(payload) ==
  LET attempt == TryParse(payload)
  IN IF attempt.returned
     THEN [threw |-> FALSE, input |-> attempt.input, instructions |-> attempt.instructions]
     ELSE [threw |-> FALSE, input |-> Str(payload),
           instructions |-> Str(<<DefaultInstructions>>)]

\* `${v}` and string concatenation: the text of a value.
StringOf(v) == IF v.kind = "undefined" THEN <<"undefined">> ELSE v.text

\* a || b
Or(a, b) == IF Truthy(a) THEN a ELSE b

\* Object.prototype, which every object literal inherits from.
ObjectPrototype ==
  [constructor |-> "function Object() { [native code] }",
   toString |-> "function toString() { [native code] }"]

\* table[key] on an object literal: an own member, else an inherited one,
\* else undefined.
Lookup(table, key) ==
  LET name == IF Len(key.text) = 1 THEN key.text[1] ELSE ""
  IN IF name \in DOMAIN table THEN Str(<<table[name]>>)
     ELSE IF name \in DOMAIN ObjectPrototype THEN Fn(ObjectPrototype[name])
     ELSE Undefined

toneInstructions ==
  [professional |-> "Maintain a professional and formal tone in your responses.",
   casual |-> "Use a casual, friendly, and conversational tone.",
   academic |-> "Provide detailed, analytical responses with academic rigor.",
   creative |-> "Be creative, imaginative, and think outside the box.",
   humorous |-> "Add appropriate humor and wit to your responses.",
   diplomatic |-> "Be diplomatic, balanced, and consider multiple perspectives.",
   direct |-> "Be direct, concise, and to the point.",
   empathetic |-> "Show empathy and understanding in your responses."]

responseTypeInstructions ==
  [precise |-> "Keep your response very concise and to the point. Respond with exactly one paragraph containing no more than 30 words.",
   normal |-> "Keep your response concise but informative. Respond with one to two paragraphs containing no more than 100 words total.",
   detailed |-> "Provide a comprehensive and detailed response. You can use multiple paragraphs and include as much relevant information as needed.",
   voice |-> "Your response will be converted to speech using Text-to-Speech technology. (...) Respond with ONLY a valid JSON object (...)"]

DefaultPersona == "You are a helpful AI assistant participating in a group discussion."

\* The clause appended for a truthy selector: a blank, then the table's
\* entry or the empty string.
Clause(table, selector) ==
  IF Truthy(selector)
  THEN <<Blank>> \o StringOf(Or(Lookup(table, selector), Str(<<>>)))
  ELSE <<>>

buildSystemPrompt(customPrompt, tone, responseType, modelName, participantNames) ==
  StringOf(Or(customPrompt, Str(<<DefaultPersona>>)))
  \o (IF Truthy(modelName) /\ Truthy(participantNames)
      THEN <<" You are ">> \o StringOf(modelName)
           \o <<". You are having a conversation with: ">> \o StringOf(participantNames)
           \o <<". When you see messages from other participants, respond naturally and build upon what they've said.">>
      ELSE <<>>)
  \o Clause(toneInstructions, tone)
  \o Clause(responseTypeInstructions, responseType)

\* A helper function is called once, on arguments of the caller's choice.
Unit(fn, args) == [fn |-> fn, args |-> args, done |-> FALSE, result |-> <<>>]

Returned(result) == unit' = [unit EXCEPT !.done = TRUE, !.result = result]

\* A model's answer t inside a code fence, with or without the json tag,
\* white space after the opening fence and before the closing one.
Texts == UNION { [1..n -> {"x", "{", Blank}] : n \in 0..MaxTextLen }
Fenced(t, tagged) ==
  <<Fence>> \o (IF tagged THEN <<JsonTag>> ELSE <<>>) \o <<Blank>> \o t \o <<Blank, Fence>>

\* Payloads handed to parseVoiceResponse: object literals, the same cut
\* short, scalars, plain text.
Members == { <<key, ":", value>> : key \in KeyTokens, value \in ScalarTokens }
RECURSIVE Joined(_)
Joined(ms) ==
  IF Len(ms) = 0 THEN <<>>
  ELSE IF Len(ms) = 1 THEN ms[1]
  ELSE ms[1] \o <<",">> \o Joined(Tail(ms))
Objects == { <<"{">> \o Joined(ms) \o <<"}">> : ms \in UNION { [1..n -> Members] : n \in 0..MaxMembers } }
Payloads ==
  Objects
  \cup { SubSeq(o, 1, Len(o) - 1) : o \in Objects }
  \cup { <<token>> : token \in ScalarTokens }
  \cup { <<>>, <<"hello">>, <<"hello", Blank, "there">> }

OptionalTexts(texts) == {Undefined, Str(<<>>)} \cup { Str(<<t>>) : t \in texts }

InitUnits ==
  /\ \/ \E t \in Texts, tagged \in BOOLEAN :
          unit = Unit("cleanVoiceResponse", <<Fenced(t, tagged), t>>)
     \/ \E payload \in Payloads : unit = Unit("parseVoiceResponse", <<payload>>)
     \/ \E customPrompt \in OptionalTexts({"Be a pirate."}),
           tone \in OptionalTexts({"casual", "direct", "sarcastic", "constructor"}),
           responseType \in {Undefined, Str(<<"normal">>), Str(<<"voice">>)},
           modelName \in OptionalTexts({"M1"}),
           participantNames \in {Str(JoinNames(ModelList(n))) : n \in {0, 2}} :
          unit = Unit("buildSystemPrompt",
                      <<customPrompt, tone, responseType, modelName, participantNames>>)
  /\ Fresh(Request("stream", GivenTopic, "array", 1, 0, "voice", TRUE, TRUE), 0, "single")
  /\ tts = NewPage(TRUE)
  /\ wire = NoWire
  /\ env = NoProcessKey
  /\ client = NoClient

restOfState ==
  <<req, faults, pc, round, k, status, body, initialMessages, conversation, events, ended,
    responseText, responseCompleted, sentinel, nframes, inflight, calls,
    outcomes, origin, oracle, harness, streamed, responses, conversationMessages,
    tts, wire, env, client>>

CleanVoice ==
  /\ unit.fn = "cleanVoiceResponse"
  /\ ~unit.done
  /\ Returned(CleanVoiceResponse(unit.args[1]))
  /\ UNCHANGED restOfState

ParseVoice ==
  /\ unit.fn = "parseVoiceResponse"
  /\ ~unit.done
  /\ Returned(parseVoiceResponse(unit.args[1]))
  /\ UNCHANGED restOfState

BuildPrompt ==
  /\ unit.fn = "buildSystemPrompt"
  /\ ~unit.done
  /\ Returned(buildSystemPrompt(unit.args[1], unit.args[2], unit.args[3],
                                unit.args[4], unit.args[5]))
  /\ UNCHANGED restOfState

NextUnits == CleanVoice \/ ParseVoice \/ BuildPrompt

SpecUnits == InitUnits /\ [][NextUnits]_vars

\* ------------------------------------------------- POST /start-stream

\* The validation returns: res.status(400).json({success: false, ...}).
StreamRejected ==
  /\ pc = "idle"
  /\ req.mode = "stream"
  /\ Invalid(req)
  /\ status' = 400
  /\ body' = [sent |-> TRUE, success |-> FALSE,
              error |-> IF MissingFields(req) THEN "Invalid request" ELSE "Too many models"]
  /\ pc' = "rejected"
  /\ UNCHANGED <<client, unit, env, wire, tts, origin, req, faults, round, k, initialMessages, conversation, events, ended, responseText,
                 responseCompleted, sentinel, nframes, inflight, calls, outcomes,
                 oracle, harness, streamed, responses, conversationMessages>>

\* Headers, the conversation object and the 'conversation' event.
StreamAccepted ==
  /\ pc = "idle"
  /\ req.mode = "stream"
  /\ ~Invalid(req)
  /\ status' = 200
  /\ initialMessages' = InitialMessages(req.topic.text, models)
  /\ conversation' = [created |-> TRUE,
                      messages |-> initialMessages',
                      responses |-> <<>>]
  /\ Written([type |-> "conversation", data |-> conversation'])
  /\ round' = 1
  /\ pc' = "round"
  /\ UNCHANGED <<client, unit, env, wire, tts, origin, req, faults, k, body, ended, responseText, responseCompleted,
                 sentinel, nframes, inflight, calls, outcomes, oracle, harness,
                 streamed, responses, conversationMessages>>

\* for (let round = 1; round <= totalRounds; round++) { write round_start
RoundStart ==
  /\ pc = "round"
  /\ round <= totalRounds
  /\ Written([type |-> "round_start", round |-> round, totalRounds |-> totalRounds])
  /\ k' = 1
  /\ pc' = "model"
  /\ UNCHANGED <<client, unit, env, wire, tts, origin, req, faults, round, status, body, initialMessages, conversation, ended, responseText,
                 responseCompleted, sentinel, nframes, inflight, calls, outcomes,
                 oracle, harness, streamed, responses, conversationMessages>>

\* The end of the model loop: write round_complete, round++.
RoundComplete ==
  /\ pc = "model"
  /\ k > NumModels
  /\ Written([type |-> "round_complete", round |-> round, totalRounds |-> totalRounds])
  /\ round' = round + 1
  /\ pc' = "round"
  /\ UNCHANGED <<client, unit, env, wire, tts, origin, req, faults, k, status, body, initialMessages, conversation, ended, responseText,
                 responseCompleted, sentinel, nframes, inflight, calls, outcomes,
                 oracle, harness, streamed, responses, conversationMessages>>

\* Mutant: conversation_complete written, the channel left open.
ConversationCompleteNoEnd ==
  /\ pc = "round"
  /\ round > totalRounds
  /\ Written([type |-> "conversation_complete", data |-> conversation])
  /\ pc' = "done"
  /\ UNCHANGED <<client, unit, env, wire, tts, origin, req, faults, round, k, status, body, initialMessages,
                 conversation, ended, responseText, responseCompleted, sentinel,
                 nframes, inflight, calls, outcomes, oracle, harness, streamed,
                 responses, conversationMessages>>

\* After the last round: write conversation_complete, res.end().
ConversationComplete ==
  /\ pc = "round"
  /\ round > totalRounds
  /\ Written([type |-> "conversation_complete", data |-> conversation])
  /\ ended' = ended + 1
  /\ pc' = "done"
  /\ UNCHANGED <<client, unit, env, wire, tts, origin, req, faults, round, k, status, body, initialMessages, conversation, responseText,
                 responseCompleted, sentinel, nframes, inflight, calls, outcomes,
                 oracle, harness, streamed, responses, conversationMessages>>

\* Where the loops are.
Here == <<round, k>>

\* Mutant: the catch writes model_error and records nothing.
CaughtAndDropped(message) ==
  /\ Written([type |-> "model_error", data |-> ErrorResponse(model, message)])
  /\ UNCHANGED <<conversation, origin>>

\* Mutant: the catch starts the history over from the initial prompt.
CaughtAndRestarted(message) ==
  /\ conversation' =
       [conversation EXCEPT
          !.responses = Append(@, ErrorResponse(model, message)),
          !.messages = Append(initialMessages, ErrorPlaceholder(model))]
  /\ Written([type |-> "model_error", data |-> ErrorResponse(model, message)])
  /\ origin' = Append(origin, Here)

\* The per-model catch (and the voice branch's own catch, which does the
\* same): an error response, the placeholder message, a model_error event.
CaughtWith(message) ==
  /\ conversation' =
       [conversation EXCEPT
          !.responses = Append(@, ErrorResponse(model, message)),
          !.messages = Append(@, ErrorPlaceholder(model))]
  /\ Written([type |-> "model_error", data |-> ErrorResponse(model, message)])
  /\ origin' = Append(origin, Here)

\* Mutant: the handler stops after the model instead of going on.
StopAfterModel ==
  /\ k' = k + 1
  /\ pc' = "done"

\* The model loop goes on to the next model.
NextModel ==
  /\ k' = k + 1
  /\ pc' = "model"

\* systemPrompts[model.id] or tones[model.id] of an undefined map throws a
\* TypeError inside the per-model try, before model_start is written.
PromptThrows ==
  /\ pc = "model"
  /\ k <= NumModels
  /\ ~(req.systemPrompts /\ req.tones)
  /\ CaughtWith(UndefinedMapError)
  /\ NextModel
  /\ UNCHANGED <<client, unit, env, wire, tts, req, faults, round, status, body, initialMessages, ended, responseText,
                 responseCompleted, sentinel, nframes, inflight, calls, outcomes,
                 oracle, harness, streamed, responses, conversationMessages>>

\* buildSystemPrompt, the model_start event, and the upstream call: the
\* single-shot generateResponse in voice mode, generateStreamingResponse
\* otherwise.
ModelStart ==
  /\ pc = "model"
  /\ k <= NumModels
  /\ req.systemPrompts /\ req.tones
  /\ Written([type |-> "model_start", model |-> model, round |-> round,
              totalRounds |-> totalRounds])
  /\ calls' = Append(calls, Call(req.responseType # "voice", conversation.messages))
  /\ inflight' = IF HasKey THEN inflight \cup {Len(calls) + 1} ELSE inflight
  /\ pc' = IF req.responseType = "voice" THEN "awaitResponse" ELSE "awaitStream"
  /\ UNCHANGED <<client, unit, env, wire, tts, origin, req, faults, round, k, status, body, initialMessages, conversation, ended, responseText,
                 responseCompleted, sentinel, nframes, outcomes, oracle, harness,
                 streamed, responses, conversationMessages>>

\* Voice branch: generateResponse resolved; the fences are stripped, the
\* response and the relabeled message are appended, model_complete written.
VoiceResolved ==
  /\ pc = "awaitResponse"
  /\ HasKey
  /\ \E text \in ReplyTexts :
       LET cleanedResponse == CleanVoiceResponse(text)
           responseObj == SuccessResponse(model, cleanedResponse)
       IN /\ conversation' =
               [conversation EXCEPT
                  !.responses = Append(@, responseObj),
                  !.messages = Append(@, Relabeled(model, cleanedResponse))]
          /\ Written([type |-> "model_complete", data |-> responseObj])
          /\ origin' = Append(origin, Here)
          /\ outcomes' = Append(outcomes, Ok(text))
          /\ Spend(text = NominalReply)
  /\ inflight' = inflight \ {Len(calls)}
  /\ NextModel
  /\ UNCHANGED <<client, unit, env, wire, tts, req, round, status, body, initialMessages, ended, responseText, responseCompleted,
                 sentinel, nframes, calls, oracle, harness, streamed, responses,
                 conversationMessages>>

\* Voice branch: generateResponse rejected; the inner catch.
VoiceRejected ==
  /\ pc = "awaitResponse"
  /\ \E cause \in Causes \cup {MissingKey} :
       RejectedFor(cause) /\ CaughtWith(CallError(model.id, cause))
  /\ outcomes' = Append(outcomes, Failed)
  /\ inflight' = inflight \ {Len(calls)}
  /\ NextModel
  /\ UNCHANGED <<client, unit, env, wire, tts, req, round, status, body, initialMessages, ended, responseText, responseCompleted,
                 sentinel, nframes, calls, oracle, harness, streamed, responses,
                 conversationMessages>>

\* generateStreamingResponse rejected: the per-model catch.
StreamingCallRejected ==
  /\ pc = "awaitStream"
  /\ \E cause \in Causes \cup {MissingKey} :
       RejectedFor(cause) /\ CaughtWith(StreamingCallError(model.id, cause))
  /\ outcomes' = Append(outcomes, Failed)
  /\ inflight' = inflight \ {Len(calls)}
  /\ NextModel
  /\ UNCHANGED <<client, unit, env, wire, tts, req, round, status, body, initialMessages, ended, responseText, responseCompleted,
                 sentinel, nframes, calls, oracle, harness, streamed, responses,
                 conversationMessages>>

\* generateStreamingResponse resolved with the stream: responseText = '',
\* responseCompleted = false, the handlers are attached, the loop waits.
StreamOpened ==
  /\ pc = "awaitStream"
  /\ HasKey
  /\ responseText' = <<>>
  /\ responseCompleted' = FALSE
  /\ sentinel' = FALSE
  /\ nframes' = 0
  /\ pc' = "streaming"
  /\ UNCHANGED <<client, unit, env, wire, tts, origin, req, faults, round, k, status, body, initialMessages, conversation, events, ended,
                 inflight, calls, outcomes, oracle, harness, streamed, responses,
                 conversationMessages>>

\* The handler-visible state a stream callback works on.
StreamState ==
  [text |-> responseText, completed |-> responseCompleted,
   conversation |-> conversation, events |-> events, origin |-> origin]

\* completeResponse(): once, and only if some text was received.
\* Mutant: model_complete is written, the response is not kept.
completeResponseUnrecorded(st, m) ==
  IF ~st.completed /\ st.text # <<>>
  THEN [st EXCEPT
          !.completed = TRUE,
          !.conversation.messages = Append(@, Relabeled(m, st.text)),
          !.origin = Append(@, Here),
          !.events = Append(@, [type |-> "model_complete",
                                data |-> SuccessResponse(m, st.text)])]
  ELSE st

completeResponse(st, m) ==
  IF ~st.completed /\ st.text # <<>>
  THEN [st EXCEPT
          !.completed = TRUE,
          !.conversation.responses = Append(@, SuccessResponse(m, st.text)),
          !.conversation.messages = Append(@, Relabeled(m, st.text)),
          !.origin = Append(@, Here),
          !.events = Append(@, [type |-> "model_complete",
                                data |-> SuccessResponse(m, st.text)])]
  ELSE st

\* Mutant: model_chunk carries the delta alone as its fullText.
OnLineDeltaOnly(st, line, m) ==
  IF line.kind = "delta" /\ line.content # <<>>
  THEN [st EXCEPT
          !.text = @ \o line.content,
          !.events = Append(@, [type |-> "model_chunk", model |-> m,
                                chunk |-> line.content,
                                fullText |-> line.content])]
  ELSE st

\* One line of a chunk that is not the sentinel: a well-formed frame with a
\* non-empty content delta extends responseText and writes model_chunk;
\* other lines, malformed payloads and empty deltas change nothing.
OnLine(st, line, m) ==
  IF line.kind = "delta" /\ line.content # <<>>
  THEN [st EXCEPT
          !.text = @ \o line.content,
          !.events = Append(@, [type |-> "model_chunk", model |-> m,
                                chunk |-> line.content,
                                fullText |-> st.text \o line.content])]
  ELSE st

\* stream.on('data'): the lines in order; the sentinel completes the
\* response and returns from the callback.
RECURSIVE OnData(_, _, _)
OnData(st, lines, m) ==
  IF Len(lines) = 0 THEN st
  ELSE IF lines[1].kind = "done" THEN completeResponse(st, m)
  ELSE OnData(OnLine(st, lines[1], m), Tail(lines), m)

Adopt(st) ==
  /\ responseText' = st.text
  /\ responseCompleted' = st.completed
  /\ conversation' = st.conversation
  /\ events' = st.events
  /\ origin' = st.origin

NominalChunk(chunk) == responseText = <<>> /\ chunk = WholeAnswer

\* A 'data' event of the open stream.  The provider sends nothing after
\* its sentinel.
StreamData ==
  /\ pc = "streaming"
  /\ ~sentinel
  /\ nframes < MaxFrames
  /\ \E chunk \in Chunks :
       /\ Adopt(OnData(StreamState, chunk, model))
       /\ sentinel' = HasDone(chunk)
       /\ Spend(NominalChunk(chunk))
  /\ nframes' = nframes + 1
  /\ UNCHANGED <<client, unit, env, wire, tts, req, round, k, pc, status, body, initialMessages, ended, inflight, calls, outcomes,
                 oracle, harness, streamed, responses, conversationMessages>>

\* The 'end' event: completeResponse(), then the wait resolves.
StreamEnd ==
  /\ pc = "streaming"
  /\ Adopt(completeResponse(StreamState, model))
  /\ outcomes' = Append(outcomes, Ok(responseText))
  /\ inflight' = inflight \ {Len(calls)}
  /\ NextModel
  /\ Spend(sentinel /\ responseText # <<>>)
  /\ UNCHANGED <<client, unit, env, wire, tts, req, round, status, body, initialMessages, ended, sentinel, nframes, calls, oracle,
                 harness, streamed, responses, conversationMessages>>

\* The 'error' event: an error response and a model_error event, then the
\* wait resolves.
StreamError ==
  /\ pc = "streaming"
  /\ \E message \in StreamErrors :
       /\ conversation' =
            [conversation EXCEPT !.responses = Append(@, ErrorResponse(model, message))]
       /\ Written([type |-> "model_error", data |-> ErrorResponse(model, message)])
  /\ origin' = Append(origin, Here)
  /\ outcomes' = Append(outcomes, Failed)
  /\ inflight' = inflight \ {Len(calls)}
  /\ NextModel
  /\ Spend(FALSE)
  /\ UNCHANGED <<client, unit, env, wire, tts, req, round, status, body, initialMessages, ended, responseText, responseCompleted,
                 sentinel, nframes, calls, oracle, harness, streamed, responses,
                 conversationMessages>>

StreamRoute ==
  \/ StreamRejected
  \/ StreamAccepted
  \/ RoundStart
  \/ PromptThrows
  \/ ModelStart
  \/ VoiceResolved
  \/ VoiceRejected
  \/ StreamingCallRejected
  \/ StreamOpened
  \/ StreamData
  \/ StreamEnd
  \/ StreamError
  \/ RoundComplete
  \/ ConversationComplete

\* ------------------------------------------------------------ POST /start

BatchRejected ==
  /\ pc = "idle"
  /\ req.mode = "batch"
  /\ Invalid(req)
  /\ status' = 400
  /\ body' = [sent |-> TRUE, success |-> FALSE,
              error |-> IF MissingFields(req) THEN "Invalid request" ELSE "Too many models"]
  /\ pc' = "rejected"
  /\ UNCHANGED <<client, unit, env, wire, tts, origin, req, faults, round, k, initialMessages, conversation, events, ended,
                 responseText, responseCompleted, sentinel, nframes, inflight, calls,
                 outcomes, oracle, harness, streamed, responses, conversationMessages>>

\* initialMessages, then generateMultipleResponses is entered:
\* responses = [], conversationMessages = [...messages].
BatchAccepted ==
  /\ pc = "idle"
  /\ req.mode = "batch"
  /\ ~Invalid(req)
  /\ initialMessages' = InitialMessages(req.topic.text, models)
  /\ responses' = <<>>
  /\ conversationMessages' = initialMessages'
  /\ round' = 1
  /\ k' = 1
  /\ pc' = "generate"
  /\ UNCHANGED <<client, unit, env, wire, tts, origin, req, faults, status, body, conversation, events, ended, responseText,
                 responseCompleted, sentinel, nframes, inflight, calls, outcomes,
                 oracle, harness, streamed>>

\* generateMultipleResponses: the next model of the round; buildSystemPrompt
\* and the generateResponse call.
GenerateCall ==
  /\ pc = "generate"
  /\ round <= totalRounds
  /\ k <= NumModels
  /\ calls' = Append(calls, Call(FALSE, conversationMessages))
  /\ inflight' = IF HasKey THEN inflight \cup {Len(calls) + 1} ELSE inflight
  /\ pc' = "awaitGenerate"
  /\ UNCHANGED <<client, unit, env, wire, tts, origin, req, faults, round, k, status, body, initialMessages, conversation,
                 events, ended, responseText, responseCompleted, sentinel, nframes,
                 outcomes, oracle, harness, streamed, responses, conversationMessages>>

\* The texts generateResponse may resolve with.
Replies ==
  IF Replaying
  THEN IF Len(calls) <= Len(oracle) /\ oracle[Len(calls)].ok
       THEN {oracle[Len(calls)].text} ELSE {}
  ELSE ReplyTexts

MayFail == Replaying => Len(calls) <= Len(oracle) /\ ~oracle[Len(calls)].ok

\* generateResponse resolved: the response and the relabeled message.
GenerateResolved ==
  /\ pc = "awaitGenerate"
  /\ HasKey
  /\ \E response \in Replies :
       /\ responses' = Append(responses, SuccessResponse(model, response))
       /\ conversationMessages' = Append(conversationMessages, Relabeled(model, response))
       /\ outcomes' = Append(outcomes, Ok(response))
       /\ Spend(response = NominalReply)
  /\ origin' = Append(origin, Here)
  /\ inflight' = inflight \ {Len(calls)}
  /\ k' = k + 1
  /\ pc' = "generate"
  /\ UNCHANGED <<client, unit, env, wire, tts, req, round, status, body, initialMessages, conversation, events, ended,
                 responseText, responseCompleted, sentinel, nframes, calls, oracle,
                 harness, streamed>>

\* Mutant: the catch only logs; nothing is recorded for the failed model.
GenerateRejectedSilently ==
  /\ pc = "awaitGenerate"
  /\ MayFail
  /\ outcomes' = Append(outcomes, Failed)
  /\ inflight' = inflight \ {Len(calls)}
  /\ k' = k + 1
  /\ pc' = "generate"
  /\ \E cause \in Causes \cup {MissingKey} : RejectedFor(cause)
  /\ UNCHANGED <<client, unit, env, wire, tts, origin, req, round, status, body, initialMessages, conversation,
                 events, ended, responseText, responseCompleted, sentinel, nframes,
                 calls, oracle, harness, streamed, responses, conversationMessages>>

\* generateResponse rejected: the catch of the model loop.
GenerateRejected ==
  /\ pc = "awaitGenerate"
  /\ MayFail
  /\ \E cause \in Causes \cup {MissingKey} :
       /\ RejectedFor(cause)
       /\ responses' = Append(responses, ErrorResponse(model, CallError(model.id, cause)))
  /\ conversationMessages' = Append(conversationMessages, ErrorPlaceholder(model))
  /\ origin' = Append(origin, Here)
  /\ outcomes' = Append(outcomes, Failed)
  /\ inflight' = inflight \ {Len(calls)}
  /\ k' = k + 1
  /\ pc' = "generate"
  /\ UNCHANGED <<client, unit, env, wire, tts, req, round, status, body, initialMessages, conversation, events, ended,
                 responseText, responseCompleted, sentinel, nframes, calls, oracle,
                 harness, streamed>>

\* The model loop is over: the next round.
GenerateNextRound ==
  /\ pc = "generate"
  /\ round <= totalRounds
  /\ k > NumModels
  /\ round' = round + 1
  /\ k' = 1
  /\ UNCHANGED <<client, unit, env, wire, tts, origin, req, faults, pc, status, body, initialMessages, conversation, events,
                 ended, responseText, responseCompleted, sentinel, nframes, inflight,
                 calls, outcomes, oracle, harness, streamed, responses,
                 conversationMessages>>

\* Mutant: generateMultipleResponses pushes on the array of its caller, so
\* the route returns the grown array.
BatchReturnGrown ==
  /\ pc = "generate"
  /\ req.mode = "batch"
  /\ round > totalRounds
  /\ conversation' = [created |-> TRUE, messages |-> conversationMessages,
                      responses |-> responses]
  /\ status' = 200
  /\ body' = [sent |-> TRUE, success |-> TRUE, data |-> conversation']
  /\ pc' = "done"
  /\ UNCHANGED <<client, unit, env, wire, tts, origin, req, faults, round, k, initialMessages, events, ended, responseText,
                 responseCompleted, sentinel, nframes, inflight, calls, outcomes,
                 oracle, harness, streamed, responses, conversationMessages>>

\* generateMultipleResponses returns responses; the route builds the
\* conversation object and sends it.
BatchReturn ==
  /\ pc = "generate"
  /\ req.mode = "batch"
  /\ round > totalRounds
  /\ conversation' = [created |-> TRUE, messages |-> initialMessages,
                      responses |-> responses]
  /\ status' = 200
  /\ body' = [sent |-> TRUE, success |-> TRUE, data |-> conversation']
  /\ pc' = "done"
  /\ UNCHANGED <<client, unit, env, wire, tts, origin, req, faults, round, k, initialMessages, events, ended, responseText,
                 responseCompleted, sentinel, nframes, inflight, calls, outcomes,
                 oracle, harness, streamed, responses, conversationMessages>>

BatchRoute ==
  \/ BatchRejected
  \/ BatchAccepted
  \/ GenerateCall
  \/ GenerateResolved
  \/ GenerateRejected
  \/ GenerateNextRound
  \/ BatchReturn

Next == StreamRoute \/ BatchRoute

Spec == Init /\ [][Next]_vars

\* The handler under a scheduler that runs it and a provider whose every
\* call resolves or rejects and whose every stream ends or errors: a step
\* that can be taken is taken.  Requests around the validation rules meet a
\* nominal provider here.
\* Requests issuing fewer than MaxSteps model calls.
FitsLive(r) == Len(r.models.list) * TotalRounds(r) < MaxSteps

InitLive ==
  /\ \/ \E r \in SmallRequests :
          FitsLive(r) /\ Fresh(r, -1, "single") /\ env = NoProcessKey
     \/ \E r \in WideRequests : Fresh(r, 0, "single") /\ env = NoProcessKey
     \/ \E r \in SmallRequests, key \in BOOLEAN :
          FitsLive(r) /\ Fresh(WithoutKey(r), 0, "single") /\ env = ProcessEnv(key)
  /\ tts = NewPage(TRUE)
  /\ wire = NoWire
  /\ unit = NoUnit
  /\ client = NoClient

SpecLive == InitLive /\ [][Next]_vars /\ WF_vars(Next)

\* The start routes met with any round count: the requests of Init, and
\* well-formed requests whose responseCount is a negative number.
NegativeRequests ==
  { Request(mode, GivenTopic, "array", n, count, type, TRUE, TRUE) :
      mode \in Modes, n \in 1..2, count \in (0 - MaxSteps)..(0 - 1),
      type \in ResponseTypes }

InitRounds ==
  \/ Init
  \/ /\ \E r \in NegativeRequests : Fresh(r, -1, "single")
     /\ env = NoProcessKey
     /\ tts = NewPage(TRUE)
     /\ wire = NoWire
     /\ unit = NoUnit
     /\ client = NoClient

SpecRounds == InitRounds /\ [][Next]_vars

\* ------------------------------------- POST /continue and POST /followup

FollowModes == {"continue", "followup"}

Message(role, content) == [role |-> role, content |-> content]

\* The histories a caller may supply.
Histories ==
  { <<>>,
    <<Message("user", <<"Discuss AI">>)>>,
    <<Message("user", <<"Discuss AI">>),
      Message("user", <<"Here's what ", "M1", " said: ", "x">>)>> }

\* req.body of a continue or follow-up request: conversationId and
\* followupPrompt may be missing or empty, messages and models may be
\* missing, models may be something that is not an array.  A responseCount
\* in the body is not read.
FollowRequest(mode, id, kind, n, given, history, prompt, count) ==
  [mode |-> mode,
   conversationId |-> id,
   models |-> [kind |-> kind, list |-> ModelList(n)],
   messages |-> [given |-> given, list |-> history],
   followupPrompt |-> prompt,
   responseCount |-> count,
   responseType |-> "normal",
   systemPrompts |-> TRUE,
   tones |-> TRUE,
   apiKey |-> TRUE]

FollowRequests ==
  { FollowRequest(mode, id, "array", n, TRUE, history, prompt, count) :
      mode \in FollowModes, id \in {"", "c1"}, n \in 0..(MaxSteps - 1),
      history \in Histories, prompt \in {"", "And then?"}, count \in {0, 2} }
  \cup
  { FollowRequest(mode, "c1", kind, 0, given, <<>>, "And then?", 0) :
      mode \in FollowModes, kind \in {"undefined", "object"}, given \in BOOLEAN }

\* !conversationId || !models || !messages (continue);
\* !messages || !models || !followupPrompt (follow-up)
FollowInvalid(r) ==
  \/ r.models.kind = "undefined"
  \/ ~r.messages.given
  \/ IF r.mode = "continue" THEN r.conversationId = "" ELSE r.followupPrompt = ""

\* continue: messages; follow-up: [...messages, {role: 'user', content: followupPrompt}]
updatedMessages(r) ==
  IF r.mode = "continue" THEN r.messages.list
  ELSE Append(r.messages.list, Message("user", <<r.followupPrompt>>))

FollowRejected ==
  /\ pc = "idle"
  /\ req.mode \in FollowModes
  /\ FollowInvalid(req)
  /\ status' = 400
  /\ body' = [sent |-> TRUE, success |-> FALSE, error |-> "Invalid request"]
  /\ pc' = "rejected"
  /\ UNCHANGED <<client, unit, env, wire, tts, origin, req, faults, round, k, initialMessages, conversation, events, ended,
                 responseText, responseCompleted, sentinel, nframes, inflight, calls,
                 outcomes, oracle, harness, streamed, responses, conversationMessages>>

\* Mutant: the follow-up prompt is not added to the messages.
FollowAcceptedWithoutPrompt ==
  /\ pc = "idle"
  /\ req.mode \in FollowModes
  /\ ~FollowInvalid(req)
  /\ req.models.kind = "array"
  /\ initialMessages' = req.messages.list
  /\ responses' = <<>>
  /\ conversationMessages' = initialMessages'
  /\ round' = 1
  /\ k' = 1
  /\ pc' = "generate"
  /\ UNCHANGED <<client, unit, env, wire, tts, origin, req, faults, status, body, conversation, events, ended, responseText,
                 responseCompleted, sentinel, nframes, inflight, calls, outcomes,
                 oracle, harness, streamed>>

\* generateMultipleResponses is entered with the messages of the route:
\* responses = [], conversationMessages = [...messages].
FollowAccepted ==
  /\ pc = "idle"
  /\ req.mode \in FollowModes
  /\ ~FollowInvalid(req)
  /\ req.models.kind = "array"
  /\ initialMessages' = updatedMessages(req)
  /\ responses' = <<>>
  /\ conversationMessages' = initialMessages'
  /\ round' = 1
  /\ k' = 1
  /\ pc' = "generate"
  /\ UNCHANGED <<client, unit, env, wire, tts, origin, req, faults, status, body, conversation, events, ended, responseText,
                 responseCompleted, sentinel, nframes, inflight, calls, outcomes,
                 oracle, harness, streamed>>

\* models is not an array: models.map throws in generateMultipleResponses
\* and the catch of the route answers 500.
FollowThrows ==
  /\ pc = "idle"
  /\ req.mode \in FollowModes
  /\ ~FollowInvalid(req)
  /\ req.models.kind # "array"
  /\ status' = 500
  /\ body' = [sent |-> TRUE, success |-> FALSE,
              error |-> IF req.mode = "continue" THEN "Failed to continue conversation"
                        ELSE "Failed to generate followup"]
  /\ pc' = "failed"
  /\ UNCHANGED <<client, unit, env, wire, tts, origin, req, faults, round, k, initialMessages, conversation, events, ended,
                 responseText, responseCompleted, sentinel, nframes, inflight, calls,
                 outcomes, oracle, harness, streamed, responses, conversationMessages>>

\* generateMultipleResponses returned: res.json with the responses.
FollowReturn ==
  /\ pc = "generate"
  /\ req.mode \in FollowModes
  /\ round > totalRounds
  /\ status' = 200
  /\ body' = [sent |-> TRUE, success |-> TRUE,
              data |-> IF req.mode = "continue"
                       THEN [conversationId |-> req.conversationId, responses |-> responses]
                       ELSE [responses |-> responses, messages |-> initialMessages]]
  /\ pc' = "done"
  /\ UNCHANGED <<client, unit, env, wire, tts, origin, req, faults, round, k, initialMessages, conversation, events, ended, responseText,
                 responseCompleted, sentinel, nframes, inflight, calls, outcomes,
                 oracle, harness, streamed, responses, conversationMessages>>

\* Requests with one model more than the start routes allow.
WideFollowRequests ==
  { FollowRequest(mode, "c1", "array", MaxModelsAllowed + 1, TRUE, <<>>, "And then?", 0) :
      mode \in FollowModes }

\* A request of ordinary size meets any upstream behaviour, a wide one a
\* provider that answers nominally.
InitFollow ==
  /\ \/ \E r \in FollowRequests : Fresh(r, -1, "single")
     \/ \E r \in WideFollowRequests : Fresh(r, 0, "single")
  /\ env = NoProcessKey
  /\ tts = NewPage(TRUE)
  /\ wire = NoWire
  /\ unit = NoUnit
  /\ client = NoClient

NextFollow ==
  \/ FollowRejected
  \/ FollowAccepted
  \/ FollowThrows
  \/ GenerateCall
  \/ GenerateResolved
  \/ GenerateRejected
  \/ GenerateNextRound
  \/ FollowReturn

SpecFollow == InitFollow /\ [][NextFollow]_vars

\* ------------------------------------------- the page: continueConversation

\* The follow-up prompts a user may type; the empty one is refused by the
\* route.
FollowupPrompts == {"", "And then?"}

\* The page holds a conversation and continueConversation has posted
\* {messages, models, systemPrompts, tones, followupPrompt}: no apiKey.
Continuing(history, n, posts) ==
  [followed |-> TRUE,
   currentConversation |-> [messages |-> history, models |-> ModelList(n),
                            responses |-> <<>>],
   isGenerating |-> TRUE,
   posts |-> posts,
   toast |-> "none"]

PostedFollowup(c, followupPrompt) ==
  WithoutKey(FollowRequest("followup", "", "array", Len(c.currentConversation.models),
                           TRUE, c.currentConversation.messages, followupPrompt, 0))

\* The handler starts on the posted body.
Posted(r) ==
  /\ req' = r
  /\ pc' = "idle"
  /\ round' = 0
  /\ k' = 0
  /\ status' = 0
  /\ body' = NoBody
  /\ initialMessages' = <<>>
  /\ conversation' = NoConversation
  /\ events' = <<>>
  /\ ended' = 0
  /\ responseText' = <<>>
  /\ responseCompleted' = FALSE
  /\ sentinel' = FALSE
  /\ nframes' = 0
  /\ inflight' = {}
  /\ calls' = <<>>
  /\ outcomes' = <<>>
  /\ origin' = <<>>
  /\ oracle' = <<>>
  /\ streamed' = <<>>
  /\ responses' = <<>>
  /\ conversationMessages' = <<>>
  /\ UNCHANGED <<faults, harness, env, tts, wire, unit>>

\* continueConversation, from its call to the post.
ContinueConversation ==
  /\ client.followed
  /\ ~client.isGenerating
  /\ client.posts < MaxFollowups
  /\ \E followupPrompt \in FollowupPrompts :
       Posted(PostedFollowup(client, followupPrompt))
  /\ client' = [client EXCEPT !.isGenerating = TRUE, !.posts = @ + 1, !.toast = "none"]

\* The post resolved: setCurrentConversation with the messages of the answer
\* and the responses added to those held; finally setIsGenerating(false).
ContinueResolved ==
  /\ client.followed
  /\ client.isGenerating
  /\ pc = "done"
  /\ client' = [client EXCEPT
       !.currentConversation =
          [@ EXCEPT !.messages = body.data.messages,
                    !.responses = @ \o body.data.responses],
       !.isGenerating = FALSE,
       !.toast = "success"]
  /\ UNCHANGED serverState

\* The post was answered 400 or 500: the catch shows an error and the
\* conversation stays as it was.
ContinueRejected ==
  /\ client.followed
  /\ client.isGenerating
  /\ pc \in {"rejected", "failed"}
  /\ client' = [client EXCEPT !.isGenerating = FALSE, !.toast = "error"]
  /\ UNCHANGED serverState

InitContinue ==
  /\ \E history \in Histories, n \in 1..MaxFollowModels, followupPrompt \in FollowupPrompts :
       /\ client = Continuing(history, n, 1)
       /\ Fresh(PostedFollowup(client, followupPrompt), -1, "single")
  /\ \E key \in BOOLEAN : env = ProcessEnv(key)
  /\ tts = NewPage(TRUE)
  /\ wire = NoWire
  /\ unit = NoUnit

NextContinue ==
  \/ FollowRejected
  \/ FollowAccepted
  \/ GenerateCall
  \/ GenerateResolved
  \/ GenerateRejected
  \/ GenerateNextRound
  \/ FollowReturn
  \/ ContinueResolved
  \/ ContinueRejected
  \/ ContinueConversation

SpecContinue == InitContinue /\ [][NextContinue]_vars

\* ------------------------------------- the page: startStreamingConversation

\* res.write("data: " + JSON.stringify(e) + "\n\n") as the bytes of the
\* body: the piece from "data: " into the JSON text, and the piece with the
\* rest of the JSON text and the two newlines.  A read of the body may end
\* between any two pieces.
Frame(e) == <<[piece |-> "head", event |-> e], [piece |-> "tail", event |-> e]>>

RECURSIVE Sent(_)
Sent(es) == IF Len(es) = 0 THEN <<>> ELSE Frame(es[1]) \o Sent(Tail(es))

\* chunk.split('\n'), startsWith('data: '), JSON.parse: the events of the
\* lines of one read.  A line that starts in this read and ends in the next
\* makes JSON.parse throw, which is caught and logged; a line that ends in
\* this read and started in the one before does not start with "data: ";
\* empty lines are skipped.
RECURSIVE ParsedLines(_)
ParsedLines(chunk) ==
  IF Len(chunk) = 0 THEN <<>>
  ELSE IF chunk[1].piece = "head" /\ Len(chunk) >= 2
       THEN <<chunk[1].event>> \o ParsedLines(Tail(Tail(chunk)))
       ELSE ParsedLines(Tail(chunk))

\* { ...prev, [id]: text }
Put(map, id, text) == [i \in DOMAIN map \cup {id} |-> IF i = id THEN text ELSE map[i]]

\* delete newResponses[id]
Delete(map, id) == [i \in DOMAIN map \ {id} |-> map[i]]

\* prev ? { ...prev, responses: [...prev.responses, data], messages:
\* [...prev.messages, said] } : null, null being a conversation not created.
WithResult(prev, data, said) ==
  IF prev.created
  THEN [prev EXCEPT !.responses = Append(@, data), !.messages = Append(@, said)]
  ELSE prev

\* The switch on parsed.type.
OnEvent(c, e) ==
  LET seen == [c EXCEPT !.applied = Append(@, e)] IN
  CASE e.type = "conversation" ->
         [seen EXCEPT !.currentConversation = e.data]
    [] e.type = "model_start" ->
         [seen EXCEPT !.streamingResponses = Put(@, e.model.id, <<>>)]
    [] e.type = "model_chunk" ->
         [seen EXCEPT !.streamingResponses = Put(@, e.model.id, e.fullText)]
    [] e.type = "model_complete" ->
         [seen EXCEPT
            !.currentConversation =
               WithResult(@, e.data, Relabeled(e.data.model, e.data.response)),
            !.streamingResponses = Delete(@, e.data.model.id)]
    [] e.type = "model_error" ->
         [seen EXCEPT
            !.currentConversation = WithResult(@, e.data, ErrorPlaceholder(e.data.model)),
            !.streamingResponses = Delete(@, e.data.model.id),
            !.toast = "error"]
    [] e.type = "conversation_complete" ->
         [seen EXCEPT !.currentConversation = e.data,
                      !.streamingResponses = <<>>,
                      !.toast = "success"]
    [] OTHER -> seen

RECURSIVE OnEvents(_, _)
OnEvents(c, es) ==
  IF Len(es) = 0 THEN c ELSE OnEvents(OnEvent(c, es[1]), Tail(es))

\* startStreamingConversation has posted {topic, models, systemPrompts,
\* tones, responseCount, responseType}: no apiKey.
Streaming ==
  [followed |-> TRUE,
   currentConversation |-> NoConversation,
   streamingResponses |-> <<>>,
   isGenerating |-> TRUE,
   read |-> 0,
   applied |-> <<>>,
   toast |-> "none"]

\* One turn of the reader loop: reader.read() resolves with some of the
\* bytes written and not yet read; the events of its lines are handled.
ReaderRead ==
  /\ client.followed
  /\ client.isGenerating
  /\ status = 200
  /\ \E to \in (client.read + 1)..Len(Sent(events)) :
       client' = [OnEvents(client, ParsedLines(SubSeq(Sent(events), client.read + 1, to)))
                    EXCEPT !.read = to]
  /\ UNCHANGED serverState

\* reader.read() resolves done: the loop ends, finally setIsGenerating(false).
ReaderDone ==
  /\ client.followed
  /\ client.isGenerating
  /\ ended > 0
  /\ client.read = Len(Sent(events))
  /\ client' = [client EXCEPT !.isGenerating = FALSE]
  /\ UNCHANGED serverState

\* !response.ok: the throw, the catch and finally.
ReaderRefused ==
  /\ client.followed
  /\ client.isGenerating
  /\ pc = "rejected"
  /\ client' = [client EXCEPT !.isGenerating = FALSE, !.toast = "error"]
  /\ UNCHANGED serverState

\* The requests of a page: those of at most MaxReadSteps model calls, and one
\* without models.
PageRequests ==
  { WithoutKey(r) : r \in { q \in SmallRequests :
       q.mode = "stream" /\ Len(q.models.list) * TotalRounds(q) <= MaxReadSteps } }
  \cup { WithoutKey(Request("stream", GivenTopic, "array", 0, 0, "normal", TRUE, TRUE)) }

InitRead ==
  /\ \E r \in PageRequests : Fresh(r, MaxReadFaults, "single")
  /\ \E key \in BOOLEAN : env = ProcessEnv(key)
  /\ client = Streaming
  /\ tts = NewPage(TRUE)
  /\ wire = NoWire
  /\ unit = NoUnit

NextRead == StreamRoute \/ ReaderRead \/ ReaderDone \/ ReaderRefused

SpecRead == InitRead /\ [][NextRead]_vars

\* ------------------------------------------- the two delivery modes compared

\* The same request is served by POST /start-stream and then by POST /start,
\* the upstream provider answering the n-th call of the second run as it
\* answered the n-th call of the first.
InitPair ==
  \E r \in SmallRequests \cup WideRequests :
    /\ r.mode = "stream"
    /\ r \in SmallRequests => FitsSmall(r)
    /\ Fresh(r, IF r \in SmallRequests THEN -1 ELSE WideFaults, "pair")
    /\ tts = NewPage(TRUE)
    /\ wire = NoWire
    /\ unit = NoUnit
    /\ client = NoClient
    /\ env = NoProcessKey

Replay ==
  /\ harness = "pair"
  /\ req.mode = "stream"
  /\ pc \in {"done", "rejected"}
  /\ streamed' = [status |-> status, events |-> events]
  /\ oracle' = outcomes
  /\ req' = [req EXCEPT !.mode = "batch"]
  /\ pc' = "idle"
  /\ round' = 0
  /\ k' = 0
  /\ status' = 0
  /\ body' = NoBody
  /\ initialMessages' = <<>>
  /\ conversation' = NoConversation
  /\ events' = <<>>
  /\ ended' = 0
  /\ calls' = <<>>
  /\ outcomes' = <<>>
  /\ origin' = <<>>
  /\ UNCHANGED <<client, unit, env, wire, tts, faults, harness, responseText, responseCompleted, sentinel, nframes,
                 inflight, responses, conversationMessages>>

NextPair == Next \/ Replay

SpecPair == InitPair /\ [][NextPair]_vars

\* ------------------------------------------- the client playback pipeline

\* TTSService (tts.ts).  The page runs one handler at a time: an action is
\* one task of the page with the microtasks it leaves behind, so a handler
\* runs up to the point where every continuation it started waits for the
\* network, for an audio element or for the user.

\* Calls of the service (playTTSResponse, stopCurrentAudio,
\* skipCurrentAudio) made in one behaviour.
MaxCalls == 5

Called(p, what, id) == [p EXCEPT !.callbacks = Append(@, <<what, id>>)]

CallsMade(p) ==
  p.idCounter
  + Cardinality({i \in 1..Len(p.callbacks) : p.callbacks[i][1] \in {"stop", "skip"}})

\* currentAudio !== null && !currentAudio.paused && !currentAudio.ended
isPlaying(p) == p.currentAudio # 0 /\ p.currentAudio \in p.unpaused

\* currentAudio.pause(): the paused attribute is set; a pending promise of
\* play() will be rejected by a task queued now.
pause(p, item) ==
  IF item \in p.unpaused
  THEN [p EXCEPT !.unpaused = @ \ {item},
                 !.mediaTasks = IF item \in p.playPromises
                                THEN Append(@, <<"abort", item>>) ELSE @]
  ELSE p

\* The element has a task queued.
Queued(p, item) == \E i \in 1..Len(p.mediaTasks) : p.mediaTasks[i][2] = item

\* URL.createObjectURL(audioBlob) for an item that is then pushed on the
\* audio queue: urls counts the revokeObjectURL calls on the item's URL.
createObjectURL(p, item) == [p EXCEPT !.urls = (item :> 0) @@ @]

\* URL.revokeObjectURL(item.audioUrl)
revokeObjectURL(p, item) == [p EXCEPT !.urls[item] = @ + 1]

\* Mutant: the playback flag is left set when an item is over.
SettleLeavingBusy(p, item) ==
  Called([revokeObjectURL(p, item) EXCEPT !.currentAudio = 0], "end", item)

\* What the 'ended' listener, the 'error' listener and the catch of play()
\* do before they call processAudioQueue again: the URL is revoked, the
\* current audio forgotten, onEnd called.
Settle(p, item) ==
  [Called([revokeObjectURL(p, item) EXCEPT !.currentAudio = 0], "end", item)
     EXCEPT !.isProcessingPlayback = FALSE]

\* Mutant: after a blocked play() the worker does not look at the queue again.
processAudioQueueStalling(p, blocked) ==
  IF p.isProcessingPlayback \/ Len(p.audioQueue) = 0 THEN p
  ELSE IF isPlaying(p) THEN p
  ELSE LET item == Head(p.audioQueue)
           q == [p EXCEPT !.isProcessingPlayback = TRUE,
                          !.audioQueue = Tail(@),
                          !.currentAudio = item]
       IN IF blocked THEN Settle(Called(q, "blocked", item), item)
          ELSE [q EXCEPT !.unpaused = @ \cup {item},
                         !.playPromises = @ \cup {item},
                         !.mediaTasks = @ \o <<<<"play", item>>, <<"playing", item>>>>]

\* processAudioQueue.  blocked: the browser does not allow this task to
\* start audio (it decides for each task: no user gesture yet, or none
\* recent enough), so play() returns a promise already rejected (NotAllowedError) and the catch
\* runs as a microtask of the same task; otherwise play() clears the paused
\* attribute, queues the 'play' event and the notification that the element
\* is playing, and leaves its promise pending.
RECURSIVE processAudioQueue(_, _)
processAudioQueue(p, blocked) ==
  IF p.isProcessingPlayback \/ Len(p.audioQueue) = 0 THEN p
  ELSE IF isPlaying(p) THEN p
  ELSE LET item == Head(p.audioQueue)
           q == [p EXCEPT !.isProcessingPlayback = TRUE,
                          !.audioQueue = Tail(@),
                          !.currentAudio = item]
       IN IF blocked
          THEN processAudioQueue(Settle(Called(q, "blocked", item), item), blocked)
          ELSE [q EXCEPT !.unpaused = @ \cup {item},
                         !.playPromises = @ \cup {item},
                         !.mediaTasks = @ \o <<<<"play", item>>, <<"playing", item>>>>]

\* Mutant: the catch only logs the failure, onEnd is not called.
conversionFailedSilently(p, item) == Called(p, "fail", item)

\* The catch of processTextQueue around convertTextToAudio, which has
\* logged the failure and thrown it again: the item's onEnd is called.
conversionFailed(p, item) == Called(Called(p, "fail", item), "end", item)

\* The while loop of processTextQueue, from its test.  Without the speech
\* key initializeOpenAI throws before any request: the item's onEnd is
\* called and the loop goes on within the same task.
RECURSIVE textLoop(_)
textLoop(p) ==
  IF Len(p.textQueue) = 0 THEN [p EXCEPT !.isProcessingText = FALSE]
  ELSE LET item == Head(p.textQueue)
           q == [p EXCEPT !.textQueue = Tail(@)]
       IN IF ~p.key THEN textLoop(conversionFailed(q, item))
          ELSE [q EXCEPT !.synthesizing = @ \cup {item}]

processTextQueue(p) ==
  IF p.isProcessingText \/ Len(p.textQueue) = 0 THEN p
  ELSE textLoop([p EXCEPT !.isProcessingText = TRUE])

serverVars ==
  <<req, faults, pc, round, k, status, body, initialMessages, conversation, events, ended,
    responseText, responseCompleted, sentinel, nframes, inflight, calls,
    outcomes, origin, oracle, harness, streamed, responses, conversationMessages,
    wire, env, unit, client>>

PlayTTSResponse ==
  /\ CallsMade(tts) < MaxCalls
  /\ \E blocked \in BOOLEAN :
       LET id == tts.idCounter + 1
           pushed == [tts EXCEPT !.idCounter = id, !.textQueue = Append(@, id)]
       IN tts' = processAudioQueue(processTextQueue(pushed), blocked)
  /\ UNCHANGED serverVars

\* The awaits of convertTextToAudio are over for item: the speech request,
\* the body and the 'canplay' of the new element succeeded (ok), or one of
\* them failed (speech API error, audio load error, load timeout).
SynthesisDone ==
  /\ \E item \in tts.synthesizing, ok \in BOOLEAN, blocked \in BOOLEAN :
       LET left == [tts EXCEPT !.synthesizing = @ \ {item}]
       IN tts' =
            IF ok
            THEN textLoop(processAudioQueue(
                   [createObjectURL(left, item) EXCEPT !.audioQueue = Append(@, item)],
                   blocked))
            ELSE textLoop(conversionFailed(left, item))
  /\ UNCHANGED serverVars

NextTask(kind) == Len(tts.mediaTasks) > 0 /\ Head(tts.mediaTasks)[1] = kind
TaskRun == [tts EXCEPT !.mediaTasks = Tail(@)]

\* The 'play' event queued by play() is dispatched: item.onStart().
PlayEvent ==
  /\ NextTask("play")
  /\ tts' = Called(TaskRun, "start", Head(tts.mediaTasks)[2])
  /\ UNCHANGED serverVars

\* The 'playing' notification: the promise of play(), if it is still
\* pending and not taken by a pause(), is resolved, and the await of
\* processAudioQueue returns.
PlayResolved ==
  /\ NextTask("playing")
  /\ LET item == Head(tts.mediaTasks)[2]
     IN tts' = IF item \in tts.unpaused
               THEN [TaskRun EXCEPT !.playPromises = @ \ {item}]
               ELSE TaskRun
  /\ UNCHANGED serverVars

\* The element was paused before its promise of play() was resolved: the
\* promise is rejected (AbortError) and the catch of processAudioQueue runs.
PlayRejected ==
  /\ NextTask("abort")
  /\ \E blocked \in BOOLEAN :
       LET item == Head(tts.mediaTasks)[2]
       IN tts' = processAudioQueue(
                   Settle([TaskRun EXCEPT !.playPromises = @ \ {item}], item),
                   blocked)
  /\ UNCHANGED serverVars

AudioEnds(item, blocked) ==
  /\ item \in tts.unpaused
  /\ item \notin tts.playPromises
  /\ ~Queued(tts, item)
  /\ tts' = processAudioQueue(
              Settle([tts EXCEPT !.unpaused = @ \ {item}], item), blocked)

\* The 'ended' listener: playback reached the end of the audio.
PlaybackEnded ==
  /\ \E item \in tts.unpaused, blocked \in BOOLEAN : AudioEnds(item, blocked)
  /\ UNCHANGED serverVars

\* The 'error' listener: playback of the element failed.
PlaybackError ==
  /\ \E item \in tts.unpaused, blocked \in BOOLEAN : AudioEnds(item, blocked)
  /\ UNCHANGED serverVars

\* skipCurrentAudio, called from the click on the skip button (a user
\* gesture, after which play() is allowed).  dispatchEvent runs the 'ended'
\* listener of the element within the call.
skipCurrentAudio(p) ==
  IF p.currentAudio # 0
  THEN processAudioQueue(Settle(pause(p, p.currentAudio), p.currentAudio), FALSE)
  ELSE p

SkipCurrentAudio ==
  /\ CallsMade(tts) < MaxCalls
  /\ tts' = skipCurrentAudio(Called(tts, "skip", tts.currentAudio))
  /\ UNCHANGED serverVars

stopCurrentAudio(p) ==
  [pause(p, p.currentAudio) EXCEPT
            !.urls = [i \in DOMAIN @ |->
                        IF \E n \in 1..Len(p.audioQueue) : p.audioQueue[n] = i
                        THEN @[i] + 1 ELSE @[i]],
            !.currentAudio = 0,
            !.textQueue = <<>>,
            !.audioQueue = <<>>,
            !.isProcessingText = FALSE,
            !.isProcessingPlayback = FALSE]

StopCurrentAudio ==
  /\ CallsMade(tts) < MaxCalls
  /\ tts' = stopCurrentAudio(Called(tts, "stop", tts.idCounter))
  /\ UNCHANGED serverVars

\* The conversation page: a voice conversation was requested and the page
\* plays what arrives.
PageRequest == Request("stream", GivenTopic, "array", 1, 0, "voice", TRUE, TRUE)

InitTTS ==
  /\ Fresh(PageRequest, 0, "single")
  /\ \E key \in BOOLEAN : tts = NewPage(key)
  /\ wire = NoWire
  /\ unit = NoUnit
  /\ client = NoClient
  /\ env = NoProcessKey

NextTTS ==
  \/ PlayTTSResponse
  \/ SynthesisDone
  \/ PlayEvent
  \/ PlayResolved
  \/ PlayRejected
  \/ PlaybackEnded
  \/ PlaybackError
  \/ SkipCurrentAudio
  \/ StopCurrentAudio

SpecTTS == InitTTS /\ [][NextTTS]_vars

\* The page on which nothing calls stopCurrentAudio, under a browser that
\* runs its tasks: every speech request returns or fails, every queued media
\* task is run, every audio that plays ends or fails.
NextPlay ==
  \/ PlayTTSResponse
  \/ SynthesisDone
  \/ PlayEvent
  \/ PlayResolved
  \/ PlayRejected
  \/ PlaybackEnded
  \/ PlaybackError
  \/ SkipCurrentAudio

SpecPlay ==
  /\ InitTTS
  /\ [][NextPlay]_vars
  /\ WF_vars(SynthesisDone)
  /\ WF_vars(PlayEvent \/ PlayResolved \/ PlayRejected)
  /\ WF_vars(PlaybackEnded \/ PlaybackError)

\* ------------------------------------- the stream read chunk by chunk

\* Frames before the sentinel in one provider stream.
MaxWireFrames == 2

\* The bytes of one frame.
Encode(frame) ==
  IF frame.kind = "delta" THEN DeltaFrame(frame.content[1])
  ELSE IF frame.kind = "done" THEN SentinelFrame
  ELSE MalformedFrame

RECURSIVE EncodeAll(_)
EncodeAll(frames) ==
  IF Len(frames) = 0 THEN <<>>
  ELSE Encode(frames[1]) \o EncodeAll(Tail(frames))

WireFrames == {DeltaLine(<<"a">>), DeltaLine(<<"b">>), MalformedLine}

\* What the provider writes for one completion: some frames, the sentinel.
WireStreams ==
  UNION { [1..n -> WireFrames] : n \in 0..MaxWireFrames }

WireRequest == Request("stream", GivenTopic, "array", 1, 0, "normal", TRUE, TRUE)

InitWire ==
  /\ Fresh(WireRequest, -1, "single")
  /\ tts = NewPage(TRUE)
  /\ env = NoProcessKey
  /\ unit = NoUnit
  /\ client = NoClient
  /\ \E frames \in WireStreams :
       wire = [frames |-> frames, rest |-> EncodeAll(frames \o <<DoneLine>>)]

\* A 'data' event carrying the next bytes of the stream, cut anywhere.
StreamBytes ==
  /\ pc = "streaming"
  /\ wire.rest # <<>>
  /\ \E n \in 1..Len(wire.rest) :
       LET chunk == SubSeq(wire.rest, 1, n)
       IN /\ Adopt(OnData(StreamState, ParseLines(chunk), model))
          /\ sentinel' = (sentinel \/ HasDone(ParseLines(chunk)))
          /\ wire' = [wire EXCEPT !.rest = SubSeq(@, n + 1, Len(@))]
  /\ nframes' = nframes + 1
  /\ UNCHANGED <<client, unit, env, tts, req, faults, round, k, pc, status, body, initialMessages, ended,
                 inflight, calls, outcomes, oracle, harness, streamed, responses,
                 conversationMessages>>

\* The provider closes the stream after its last byte.
StreamClosed ==
  /\ wire.rest = <<>>
  /\ StreamEnd

NextWire ==
  \/ StreamAccepted
  \/ RoundStart
  \/ ModelStart
  \/ StreamOpened
  \/ StreamBytes
  \/ StreamClosed
  \/ RoundComplete
  \/ ConversationComplete

SpecWire == InitWire /\ [][NextWire]_vars

\* ================================================================= claims

\* The round count a request asks for: the supplied count, 1 when none.
Rounds == IF req.responseCount = 0 THEN 1 ELSE req.responseCount

\* The steps of a conversation in execution order: step n is the model at
\* position StepPosition(n) in round StepRound(n).
Steps == Rounds * Len(req.models.list)
StepRound(n) == ((n - 1) \div Len(req.models.list)) + 1
StepPosition(n) == ((n - 1) % Len(req.models.list)) + 1
StepModel(n) == req.models.list[StepPosition(n)]
StepOf(call) == (call.round - 1) * Len(req.models.list) + call.position

StreamDone == req.mode = "stream" /\ pc = "done"
BatchDone == req.mode = "batch" /\ pc = "done"

Count(seq, Test(_)) == Cardinality({i \in 1..Len(seq) : Test(seq[i])})

\* C1: streaming mode: when conversation_complete is emitted,
\* conversation.responses holds exactly one entry for every (model, round)
\* pair, whatever the outcome of the model call.
C1_ExactlyOneResponsePerStep ==
  StreamDone =>
    /\ Len(conversation.responses) = Len(origin)
    /\ \A r \in 1..Rounds : \A i \in 1..Len(req.models.list) :
         LET At(o) == o = <<r, i>> IN Count(origin, At) = 1

\* C2: batch mode: the returned list has exactly R x M entries, and entry
\* (r-1)*M + i belongs to the i-th configured model in round r, whatever
\* subset of the calls failed.
C2_BatchRoundMajor ==
  BatchDone =>
    /\ body.sent /\ body.success
    /\ Len(body.data.responses) = Steps
    /\ Len(origin) = Steps
    /\ \A n \in 1..Steps :
         /\ body.data.responses[n].model = StepModel(n)
         /\ origin[n] = <<StepRound(n), StepPosition(n)>>

C2_Witness ==
  /\ BatchDone
  /\ Len(req.models.list) = 2
  /\ Rounds = 2
  /\ body.data.responses[2].error
  /\ ~body.data.responses[3].error
  /\ body.data.responses[3].model = Model(1)

\* C3: in both modes the message list sent to model i in round r is the
\* initial prompt followed by one relabeled entry for every step that ran
\* before it, in execution order.
C3_CallSeesEveryEarlierStep ==
  \A n \in 1..Len(calls) :
    LET c == calls[n]
        s == StepOf(c)
    IN /\ Len(c.messages) = s
       /\ c.messages[1] = InitialMessages(req.topic.text, req.models.list)[1]
       /\ \A j \in 1..(s - 1) :
            IsPrefix(<<"Here's what ", StepModel(j).name, " said: ">>,
                     c.messages[j + 1].content)

\* C4: if the call of a step fails, every later step of the conversation
\* is still invoked, in both modes, and the failing step is recorded as a
\* response with error = true whose text starts with the failure indicator.
C4_FailureIsRecordedAndRunGoesOn ==
  /\ \A n \in 1..Len(outcomes) :
       ~outcomes[n].ok =>
         \E j \in 1..Len(origin) :
           /\ origin[j] = <<calls[n].round, calls[n].position>>
           /\ LET rs == IF req.mode = "batch" THEN responses ELSE conversation.responses
              IN /\ rs[j].error
                 /\ rs[j].model.id = calls[n].model
                 /\ IsPrefix(<<"Error: ">>, rs[j].response)
  /\ (pc = "done" /\ calls # <<>>) =>
       /\ Len(calls) = Steps
       /\ \A n \in 1..Steps :
            /\ calls[n].model = StepModel(n).id
            /\ calls[n].round = StepRound(n)

C4_Witness ==
  /\ StreamDone
  /\ Rounds = 2
  /\ Len(req.models.list) = 2
  /\ Len(calls) = 4
  /\ ~outcomes[1].ok
  /\ conversation.responses[1] = ErrorResponse(Model(1), <<"aborted">>)
  /\ ~outcomes[2].ok
  /\ outcomes[4].ok

\* C5: streaming mode: every step appends exactly one relabeled message, so
\* at conversation_complete the message sequence has 1 + R x M entries.
C5_OneMessagePerStep ==
  StreamDone => Len(conversation.messages) = 1 + Steps

\* C6: for the same request and the same per-call outcomes, the
\* conversation of conversation_complete and the conversation returned by
\* POST /start have the same responses and the same message sequence.
C6_SameConversation ==
  (harness = "pair" /\ BatchDone /\ streamed.status = 200) =>
    LET viaStream == Last(streamed.events).data
    IN /\ body.data.responses = viaStream.responses
       /\ body.data.messages = viaStream.messages

\* C7: at most one upstream call is in flight, and a call is issued only
\* after the response and the relabeled message of every earlier call have
\* been appended.
C7_OneCallAtATime ==
  /\ Cardinality(inflight) <= 1
  /\ inflight # {} =>
       LET n == Len(calls) IN
         /\ inflight = {n}
         /\ \A j \in 1..(n - 1) :
              \E i \in 1..Len(origin) : origin[i] = <<calls[j].round, calls[j].position>>
         /\ Len(calls[n].messages) = n

\* The channel's events without the chunks, each reduced to its type, model
\* and round; model_complete and model_error both read "terminal".
Skeleton(e) ==
  IF e.type \in {"model_complete", "model_error"}
    THEN [t |-> "terminal", m |-> e.data.model.id, r |-> 0]
  ELSE IF e.type = "model_start" THEN [t |-> e.type, m |-> e.model.id, r |-> e.round]
  ELSE IF e.type \in {"round_start", "round_complete"} THEN [t |-> e.type, m |-> "", r |-> e.round]
  ELSE [t |-> e.type, m |-> "", r |-> 0]

RECURSIVE WithoutChunks(_)
WithoutChunks(es) ==
  IF Len(es) = 0 THEN <<>>
  ELSE IF es[1].type = "model_chunk" THEN WithoutChunks(Tail(es))
  ELSE <<Skeleton(es[1])>> \o WithoutChunks(Tail(es))

RECURSIVE ExpectedModels(_, _)
ExpectedModels(r, i) ==
  IF i > Len(req.models.list) THEN <<>>
  ELSE <<[t |-> "model_start", m |-> req.models.list[i].id, r |-> r],
         [t |-> "terminal", m |-> req.models.list[i].id, r |-> 0]>>
       \o ExpectedModels(r, i + 1)

RECURSIVE ExpectedRounds(_)
ExpectedRounds(r) ==
  IF r > Rounds THEN <<>>
  ELSE <<[t |-> "round_start", m |-> "", r |-> r]>>
       \o ExpectedModels(r, 1)
       \o <<[t |-> "round_complete", m |-> "", r |-> r]>>
       \o ExpectedRounds(r + 1)

ExpectedEvents ==
  <<[t |-> "conversation", m |-> "", r |-> 0]>>
  \o ExpectedRounds(1)
  \o <<[t |-> "conversation_complete", m |-> "", r |-> 0]>>

\* A chunk comes after its model's model_start, with only chunks between.
ChunkPlaced(i) ==
  \E j \in 1..(i - 1) :
    /\ events[j].type = "model_start"
    /\ events[j].model = events[i].model
    /\ \A h \in (j + 1)..(i - 1) : events[h].type = "model_chunk"

\* C8: the events of an accepted streaming request: conversation; per round
\* round_start, per model model_start, chunks, one model_complete or
\* model_error, then round_complete; conversation_complete last.
C8_EventOrder ==
  StreamDone =>
    /\ WithoutChunks(events) = ExpectedEvents
    /\ \A i \in 1..Len(events) : events[i].type = "model_chunk" => ChunkPlaced(i)

IsComplete(e) == e.type = "conversation_complete"
IsModelError(e) == e.type = "model_error"

ToReject ==
  \/ ~req.topic.given
  \/ req.topic.text = ""
  \/ req.models.kind # "array"
  \/ Len(req.models.list) = 0
  \/ Len(req.models.list) > 10

\* C10: a start request is rejected with a 4xx exactly when the topic is
\* missing or empty, the model list is missing, not a list or empty, or it
\* has more than 10 models; a rejected request invokes no model, writes no
\* event and creates no conversation; 10 models are accepted.
C10_ValidationRejectsExactly ==
  /\ pc # "idle" => ((status >= 400 /\ status < 500) <=> ToReject)
  /\ (pc # "idle" /\ ToReject) =>
       /\ pc = "rejected"
       /\ calls = <<>>
       /\ events = <<>>
       /\ ~conversation.created
  /\ (pc # "idle" /\ ~ToReject) => pc # "rejected"

C10_Witness ==
  /\ Len(req.models.list) = 10
  /\ req.models.kind = "array"
  /\ pc = "done"
  /\ Len(calls) = 10
  /\ status = 200

\* ------------------------------------------------ the playback pipeline

Log == tts.callbacks
Entries(what) == {i \in 1..Len(Log) : Log[i][1] = what}

\* C11: in every reachable state of the playback pipeline at most one audio
\* element is playing (one playback worker is between its play() and the
\* terminal event of its item): an item that becomes ready while another
\* plays starts no second player.
C11_AtMostOnePlaying == Cardinality(tts.unpaused) <= 1

\* C12: onStart is invoked in the order of the playTTSResponse calls, which
\* is the order of the item ids: a later item never starts before an
\* earlier item that also starts.
C12_StartsInCallOrder ==
  \A i \in Entries("start"), j \in Entries("start") :
    i < j => Log[i][2] <= Log[j][2]

\* C13: after stopCurrentAudio both queues are empty and nothing plays until
\* the next playTTSResponse call, and no onStart or onEnd is invoked after
\* the stop for an item enqueued before it.
C13_StopDiscardsEverything ==
  \A s \in Entries("stop") :
    /\ \A i \in Entries("start") \cup Entries("end") :
         i > s => Log[i][2] > Log[s][2]
    /\ tts.idCounter = Log[s][2] =>
         /\ tts.textQueue = <<>>
         /\ tts.audioQueue = <<>>
         /\ tts.unpaused = {}

\* C14: at most one text worker is alive, so at most one synthesis request
\* is in flight, in every reachable state.
C14_OneSynthesisAtATime == Cardinality(tts.synthesizing) <= 1

\* C15: an item does not start before the item started before it had its
\* terminal event: between the onStart of two different items played by the
\* same run of the worker (no stop in between), or before both, the onEnd
\* of the earlier one was invoked.
C15_EndBeforeNextStart ==
  \A i \in Entries("start"), j \in Entries("start") :
    (i < j /\ Log[i][2] # Log[j][2]) =>
      \/ \E m \in Entries("end") : m < j /\ Log[m][2] = Log[i][2]
      \/ \E m \in Entries("stop") : i < m /\ m < j

\* The entries the step has added to the log.
Added == (Len(Log) + 1)..Len(Log')
Skipping == Added # {} /\ Log'[Len(Log) + 1][1] = "skip"

\* C16: a skipCurrentAudio call leaves the text queue alone; when an item is
\* playing, the call ends that item (its onEnd is invoked, it plays no more)
\* and starts the head of the audio queue, if any, removing nothing else;
\* when nothing is playing the call changes nothing.
C16_SkipEndsOnlyCurrent ==
  [][Skipping =>
       /\ tts'.textQueue = tts.textQueue
       /\ IF tts.unpaused = {}
          THEN [tts' EXCEPT !.callbacks = tts.callbacks] = tts
          ELSE /\ \E x \in tts.unpaused :
                    /\ tts.unpaused = {x}
                    /\ Log' = Log \o <<<<"skip", x>>, <<"end", x>>>>
               /\ IF tts.audioQueue = <<>>
                  THEN tts'.audioQueue = <<>> /\ tts'.unpaused = {}
                  ELSE /\ tts'.audioQueue = Tail(tts.audioQueue)
                       /\ tts'.unpaused = {Head(tts.audioQueue)}]_vars

\* C17: an item whose synthesis failed has its onEnd invoked at once, never
\* has its onStart invoked and never becomes a Prepared Audio item; and the
\* text worker goes on: while a text item waits, a synthesis is in flight.
C17_FailedSynthesisEndsItem ==
  /\ \A f \in Entries("fail") :
       LET x == Log[f][2]
       IN /\ f < Len(Log) /\ Log[f + 1] = <<"end", x>>
          /\ \A i \in Entries("start") : Log[i][2] # x
          /\ \A i \in 1..Len(tts.audioQueue) : tts.audioQueue[i] # x
          /\ x \notin tts.unpaused /\ tts.currentAudio # x
  /\ tts.textQueue # <<>> => tts.synthesizing # {}

\* A synthesis failed with the speech key present, and a later item started.
C17_Witness ==
  /\ tts.key
  /\ \E f \in Entries("fail"), i \in Entries("start") :
       f < i /\ Log[i][2] > Log[f][2]

\* C18: a play() rejected by the autoplay policy ends in the same task: the
\* item's onEnd is invoked right after the notice, the item is neither held
\* nor playing, and the worker is idle with nothing left queued or busy
\* with another item.
C18_BlockedPlayAdvances ==
  [][\A i \in Added :
       Log'[i][1] = "blocked" =>
         /\ i < Len(Log') /\ Log'[i + 1] = <<"end", Log'[i][2]>>
         /\ tts'.currentAudio # Log'[i][2]
         /\ Log'[i][2] \notin tts'.unpaused
         /\ tts'.audioQueue # <<>> => tts'.isProcessingPlayback]_vars

\* Two queued items were rejected in a row and a later item started.
C18_Witness ==
  \E a \in Entries("blocked"), b \in Entries("blocked"), i \in Entries("start") :
    /\ b = a + 2
    /\ Log[a][2] # Log[b][2]
    /\ b < i

\* --------------------------------------------------- the stream decoder

RECURSIVE ExpectedText(_)
ExpectedText(frames) ==
  IF Len(frames) = 0 THEN <<>>
  ELSE (IF frames[1].kind = "delta" THEN frames[1].content ELSE <<>>)
       \o ExpectedText(Tail(frames))

\* C19: once the whole provider stream has been read, whatever the read
\* chunks were, the text accumulated for the model is the concatenation of
\* the content deltas of the well-formed frames, malformed frames skipped;
\* it is the text of the response recorded.
C19_TextIsConcatenationOfDeltas ==
  (wire # NoWire /\ wire.rest = <<>>) =>
    /\ responseText = ExpectedText(wire.frames)
    /\ (pc = "done" /\ ExpectedText(wire.frames) # <<>>) =>
         conversation.responses = <<SuccessResponse(Model(1), ExpectedText(wire.frames))>>

\* ------------------------------------------------------- missing API key

\* C20: with no key in the request and none in the process environment, no
\* request is posted to the provider and every call fails; each failure is
\* recorded as the error-flagged response of its (model, round), naming the
\* missing key, and the finished conversation has one response for every
\* (model, round).
C20_MissingKeyIsAbsorbed ==
  ~HasKey =>
    /\ inflight = {}
    /\ \A n \in 1..Len(calls) :
         /\ ~calls[n].sent
         /\ n <= Len(outcomes) => ~outcomes[n].ok
    /\ pc = "done" =>
         LET rs == IF req.mode = "batch" THEN body.data.responses
                   ELSE conversation.responses
         IN /\ Len(rs) = Steps
            /\ \A n \in 1..Steps :
                 /\ rs[n].model = StepModel(n)
                 /\ rs[n].error
                 /\ IsPrefix(ErrorPrefix, rs[n].response)
            /\ \A n \in 1..Len(calls) :
                 Last(rs[StepOf(calls[n])].response) = MissingKey

\* A streaming conversation of two models and two rounds finished without
\* a key: four calls were made and failed.
C20_Witness ==
  /\ ~HasKey
  /\ StreamDone
  /\ Len(req.models.list) = 2
  /\ Rounds = 2
  /\ Len(outcomes) = 4
  /\ conversation.responses[4] =
       ErrorResponse(Model(2), StreamingCallError(Model(2).id, MissingKey))

\* ------------------------------------------------------- C21: termination

Accepted == pc = "idle" /\ ~Invalid(req)

IsRoundComplete(e) == e.type = "round_complete"

\* The request was served to its end: every round ran; the batch route
\* returned its result, the streaming route wrote conversation_complete last
\* and ended the channel.
Completed ==
  /\ pc = "done"
  /\ req.mode = "batch" =>
       /\ status = 200
       /\ body.sent /\ body.success
       /\ round = Rounds + 1
  /\ req.mode = "stream" =>
       /\ ended = 1
       /\ IsComplete(Last(events))
       /\ Count(events, IsRoundComplete) = Rounds

C22_FencedCleansToContent ==
  (unit.fn = "cleanVoiceResponse" /\ unit.done) => unit.result = unit.args[2]

\* --------------------------------------------- C23: what voice mode stores

Stored == IF req.mode = "batch" THEN responses ELSE conversation.responses
History == IF req.mode = "batch" THEN conversationMessages ELSE conversation.messages

\* C23: with the voice response type, in both delivery modes, the response
\* recorded for a call that succeeded and the relabeled message appended for
\* it carry the cleaned text of the answer, not the raw one.
C23_VoiceStoresCleanedText ==
  (pc = "done" /\ req.responseType = "voice" /\ Len(Stored) = Len(outcomes)
     /\ Len(History) = 1 + Len(outcomes)) =>
    \A i \in 1..Len(outcomes) :
      outcomes[i].ok =>
        /\ Stored[i].response = CleanVoiceResponse(outcomes[i].text)
        /\ History[i + 1] = Relabeled(StepModel(i), CleanVoiceResponse(outcomes[i].text))

\* ------------------------------------------- C24: the voice payload parser

\* A JSON object carrying the input and the instructions fields.
IsContract(payload) ==
  LET parsed == JSONParse(payload)
  IN /\ parsed.ok
     /\ parsed.value.kind = "object"
     /\ Has(parsed.value, "input")
     /\ Has(parsed.value, "instructions")

\* C24: parseVoiceResponse never throws; for a JSON object carrying input
\* and instructions it returns exactly those two; for every other payload it
\* returns the whole raw string as input with the default instruction.
C24_ParseReturnsContractOrRaw ==
  (unit.fn = "parseVoiceResponse" /\ unit.done) =>
    LET payload == unit.args[1]
        value == JSONParse(payload).value
    IN /\ ~unit.result.threw
       /\ IF IsContract(payload)
          THEN /\ unit.result.input = Get(value, "input")
               /\ unit.result.instructions = Get(value, "instructions")
          ELSE /\ unit.result.input = Str(payload)
               /\ unit.result.instructions = Str(<<DefaultInstructions>>)

\* -------------------------------------------------- C28: the system prompt

Given(text) == text.kind = "string" /\ text.text # <<>>
Known(table, id) == Given(id) /\ Len(id.text) = 1 /\ id.text[1] \in DOMAIN table

\* The prompt as described: the persona, the peer-awareness clause, the tone
\* clause, the response-type clause; a clause that does not apply is absent.
ExpectedPrompt(customPrompt, tone, responseType, modelName, participantNames) ==
  (IF Given(customPrompt) THEN customPrompt.text ELSE <<DefaultPersona>>)
  \o (IF Given(modelName) /\ Given(participantNames)
      THEN <<" You are ">> \o modelName.text
           \o <<". You are having a conversation with: ">> \o participantNames.text
           \o <<". When you see messages from other participants, respond naturally and build upon what they've said.">>
      ELSE <<>>)
  \o (IF Known(toneInstructions, tone)
      THEN <<Blank, toneInstructions[tone.text[1]]>> ELSE <<>>)
  \o (IF Known(responseTypeInstructions, responseType)
      THEN <<Blank, responseTypeInstructions[responseType.text[1]]>> ELSE <<>>)

\* C28: buildSystemPrompt returns, for given arguments, the concatenation of
\* the persona (custom or default), the peer-awareness clause only when both
\* the model name and the participant list are present, the tone clause and
\* the response-type clause; an unknown or empty tone contributes nothing.
C28_PromptIsConcatenationOfClauses ==
  (unit.fn = "buildSystemPrompt" /\ unit.done) =>
    unit.result = ExpectedPrompt(unit.args[1], unit.args[2], unit.args[3],
                                 unit.args[4], unit.args[5])

\* ------------------------------------------- C25: continue and follow-up

\* The history the round starts from.
Supplied ==
  IF req.mode = "continue" THEN req.messages.list
  ELSE Append(req.messages.list, Message("user", <<req.followupPrompt>>))

\* What the next models are shown of a response.
Shown(response) ==
  IF response.error THEN ErrorPlaceholder(response.model)
  ELSE Relabeled(response.model, response.response)

\* C25: the continue and the follow-up operation run exactly one round over
\* the history of the caller (the follow-up with the new prompt appended
\* last): one response per supplied model, in order, and the request of the
\* k-th model is that history followed by the relabeled responses of the
\* models before it.
C25_OneRoundOverSuppliedHistory ==
  (req.mode \in FollowModes /\ pc = "done") =>
    /\ Len(responses) = Len(req.models.list)
    /\ body.data.responses = responses
    /\ Len(calls) = Len(req.models.list)
    /\ \A n \in 1..Len(req.models.list) :
         /\ responses[n].model = req.models.list[n]
         /\ calls[n].model = req.models.list[n].id
         /\ calls[n].round = 1
         /\ calls[n].messages = Supplied \o [j \in 1..(n - 1) |-> Shown(responses[j])]

C25_Witness ==
  /\ req.mode = "followup"
  /\ pc = "done"
  /\ req.responseCount = 2
  /\ Len(req.messages.list) = 2
  /\ Len(responses) = 3
  /\ responses[2].error
  /\ ~responses[3].error

\* ------------------------------------------------ C26: append-only history

\* C26: the message sequence the models are shown only grows: at every step
\* of a conversation the sequence before the step is a prefix of the
\* sequence after it.
C26_HistoryIsAppendOnly == [][IsPrefix(History, History')]_vars

C26_Witness ==
  /\ req.mode = "stream"
  /\ pc = "done"
  /\ Len(History) >= 4
  /\ \E i \in 1..Len(outcomes) : ~outcomes[i].ok

\* ---------------------------------------------------- C27: the round count

\* The rounds a finished start request ran.
Executed ==
  IF req.mode = "stream" THEN Count(events, IsRoundComplete) ELSE round - 1

\* C27: a start request runs as many rounds as the round count it supplies,
\* one round when it supplies none, and never less than one round whatever
\* value it supplies.
C27_RoundsExecutedAsSupplied ==
  (req.mode \in Modes /\ pc = "done") =>
    /\ Executed = (IF req.responseCount = 0 THEN 1 ELSE req.responseCount)
    /\ Executed >= 1

\* ------------------------------------------- C29: the callbacks of an item

Of(what, id) == {i \in Entries(what) : Log[i][2] = id}

\* C29: for every item, under any interleaving of playback events, skip,
\* stop and failures, onEnd is called at most once, onStart at most once, and
\* onStart is never called after the item's onEnd.
C29_CallbacksAtMostOnceInOrder ==
  \A id \in 1..tts.idCounter :
    /\ Cardinality(Of("end", id)) <= 1
    /\ Cardinality(Of("start", id)) <= 1
    /\ \A i \in Of("start", id), j \in Of("end", id) : i < j

\* ---------------------------------------------- C30: the URLs of the audio

\* The item is in the pipeline no more: not queued, not the current audio.
Gone(id) ==
  /\ \A n \in 1..Len(tts.audioQueue) : tts.audioQueue[n] # id
  /\ tts.currentAudio # id

\* C30: the URL of every prepared audio item is revoked exactly once,
\* whichever way the item leaves the pipeline: played to its end, failed,
\* refused by play(), skipped, discarded by a stop, or current at a stop.
C30_UrlRevokedExactlyOnce ==
  \A id \in DOMAIN tts.urls :
    /\ tts.urls[id] <= 1
    /\ Gone(id) => tts.urls[id] = 1

\* ------------------------------------------------ C31: every item is ended

\* C31: when stopCurrentAudio is not called, every speech request returns
\* or fails and every audio that plays ends or fails, every item passed to
\* playTTSResponse eventually has its onEnd called.
C31_EveryItemIsEnded ==
  \A id \in 1..MaxCalls : (tts.idCounter >= id) ~> (Of("end", id) # {})

C31_Witness ==
  /\ tts.idCounter >= 3
  /\ Entries("stop") = {}
  /\ Entries("skip") # {}
  /\ Entries("fail") # {}
  /\ Entries("blocked") # {}
  /\ \A id \in 1..tts.idCounter : Of("end", id) # {}

\* ------------------------------------- C32: the responses of the last event

IsModelResult(e) == e.type \in {"model_complete", "model_error"}

\* The data of the model_complete and model_error events of es.
DataOf(es) ==
  LET results == SelectSeq(es, IsModelResult)
  IN [j \in 1..Len(results) |-> results[j].data]

\* C32: in streaming mode the responses carried by conversation_complete
\* are, entry for entry and in the same order, the data payloads of the
\* model_complete and model_error events written before it.
C32_CompleteCarriesTheEmittedResponses ==
  \A i \in 1..Len(events) :
    IsComplete(events[i]) =>
      events[i].data.responses = DataOf(SubSeq(events, 1, i - 1))

C32_Witness ==
  /\ StreamDone
  /\ Count(events, IsModelError) >= 1
  /\ Count(events, IsModelResult) >= 3
  /\ Len(Last(events).data.responses) # Steps

\* ------------------------------------------------ C33: the chunks of a model

IsChunk(e) == e.type = "model_chunk"

\* The chunk values of the events from position a to position b, joined.
RECURSIVE Joint(_, _)
Joint(a, b) == IF a > b THEN <<>> ELSE Joint(a, b - 1) \o events[b].chunk

CallsInRound(r) == {n \in 1..Len(calls) : calls[n].round = r}

\* C34: no operation calls more than ten models in one round, and the
\* continue and follow-up operations, like the start operations, go on only
\* with a model list that is not empty and not longer than the limit.
C34_ModelLimitOnEveryRoute ==
  /\ \A r \in 1..round : Cardinality(CallsInRound(r)) <= MaxModelsAllowed
  /\ pc \in {"generate", "awaitGenerate", "done"} =>
       /\ Len(req.models.list) >= 1
       /\ Len(req.models.list) <= MaxModelsAllowed

\* ------------------------------------------------ C35: omitted maps

MapOmitted == ~req.systemPrompts \/ ~req.tones

\* C35: a start request that omits the system-prompt map or the tone map is
\* served as with empty maps, in streaming as in batch mode: every model
\* of every round is still called.
C35_OmittedMapsCallEveryModel ==
  (req.mode \in Modes /\ pc = "done" /\ MapOmitted) =>
    /\ Len(calls) = Steps
    /\ \A n \in 1..Len(calls) : calls[n].model = StepModel(n).id

\* ------------------------------------------- C36: the array of the caller

\* The messages the batch route hands to generateMultipleResponses.
Handed == InitialMessages(req.topic.text, req.models.list)

\* C36: generateMultipleResponses leaves the messages array of its caller
\* as it was: during the call and when it has returned the array has the
\* entries it had before, whatever the rounds, the models and the failures.
C36_CallerMessagesUntouched ==
  (req.mode = "batch" /\ pc \in {"generate", "awaitGenerate", "done"}) =>
    /\ initialMessages = Handed
    /\ pc = "done" => body.data.messages = Handed

C36_Witness ==
  /\ BatchDone
  /\ Len(conversationMessages) >= 4
  /\ \E i \in 1..Len(outcomes) : ~outcomes[i].ok
  /\ Len(body.data.messages) = 1

\* ------------------------------------------- C37: follow-up after follow-up

Contains(ms, m) == \E i \in 1..Len(ms) : ms[i] = m

\* The page has taken the answer of a follow-up.
FollowupTaken == client.followed /\ ~client.isGenerating /\ client.toast = "success"

\* C37: when a follow-up has completed on the page, the messages of its
\* conversation hold the follow-up prompt and the relabeled response of
\* every model that answered it, so that the models of a later follow-up are
\* called with the responses of the earlier one.
C37_FollowupsAccumulate ==
  /\ FollowupTaken =>
       /\ Contains(client.currentConversation.messages,
                   Message("user", <<req.followupPrompt>>))
       /\ \A i \in 1..Len(body.data.responses) :
            ~body.data.responses[i].error =>
              Contains(client.currentConversation.messages,
                       Relabeled(body.data.responses[i].model,
                                 body.data.responses[i].response))
  /\ (client.followed /\ client.posts > 1) =>
       \A n \in 1..Len(calls), i \in 1..Len(client.currentConversation.responses) :
         (client.isGenerating /\ ~client.currentConversation.responses[i].error) =>
           Contains(calls[n].messages,
                    Relabeled(client.currentConversation.responses[i].model,
                              client.currentConversation.responses[i].response))

\* ------------------------------------------- C38: the reader of the channel

\* The reader loop has ended on an accepted request.
ReadToTheEnd == client.followed /\ ~client.isGenerating /\ status = 200

\* C38: when the page has read the channel to its end, every event the
\* server wrote has been handled once and in order, and the conversation of
\* the page is the one carried by conversation_complete, however the body
\* was cut into reads.
C38_ReaderAppliesEveryEvent ==
  (ReadToTheEnd /\ Len(events) > 0) =>
    /\ client.applied = events
    /\ IsComplete(Last(events)) => client.currentConversation = Last(events).data

====
